---- MODULE Spec2Model ----
(***************************************************************************)
(* Model of the flaky-test study framework: parsing of a trial's report,   *)
(* aggregation of trials, classification and scoring.                      *)
(*                                                                         *)
(* Python floats and numpy float64 are IEEE-754 binary64.  The results of  *)
(* the program depend on the rounding of every operation, so the model     *)
(* computes with binary64 values: a finite double is a sign, a 53-bit      *)
(* mantissa and an exponent, and every operation rounds its exact result   *)
(* to nearest, ties to even.  Mantissas do not fit the integers of TLC, so *)
(* they are naturals held as sequences of 15-bit limbs.  Exponent overflow, *)
(* subnormals, infinities and NaN are outside the values the model         *)
(* reaches; a negative zero is identified with zero.                       *)
(***************************************************************************)
EXTENDS Integers, Sequences, FiniteSets, TLC

(***************************************************************************)
(* Naturals of any size: little-endian sequences of limbs, no leading zero *)
(* limb (zero is the empty sequence).                                      *)
(***************************************************************************)
LimbBits == 15
Base == 2^LimbBits

Limb(a, i) == IF i >= 1 /\ i <= Len(a) THEN a[i] ELSE 0

Min(m, n) == IF m < n THEN m ELSE n
Max(m, n) == IF m < n THEN n ELSE m
SetMax(S) == CHOOSE i \in S : \A j \in S : j <= i

\* -1, 0, 1 as m < n, m = n, m > n
IntCmp(m, n) == IF m < n THEN -1 ELSE IF m > n THEN 1 ELSE 0

\* a without its leading zero limbs
NNorm(a) ==
    SubSeq(a, 1, Cardinality({i \in 1..Len(a) : \E j \in i..Len(a) : a[j] # 0}))

RECURSIVE NFromInt(_)
NFromInt(n) == IF n = 0 THEN <<>> ELSE <<n % Base>> \o NFromInt(n \div Base)

\* the value of a natural below Base^2
NToInt(a) == Limb(a, 1) + Base * Limb(a, 2)

\* The carry into limb i of the limb sums s: generated at a limb j < i and
\* propagated by the limbs between
NCarry(s, i) ==
    IF \E j \in 1..(i - 1) : s[j] >= Base /\ \A k \in (j + 1)..(i - 1) : s[k] = Base - 1
    THEN 1 ELSE 0

NAddSums(s) == NNorm([i \in 1..Len(s) |-> (s[i] + NCarry(s, i)) % Base])

\* a + b, for sequences of limbs of any length
NAdd(a, b) ==
    IF a = <<>> THEN NNorm(b)
    ELSE IF b = <<>> THEN NNorm(a)
    ELSE NAddSums([i \in 1..(Max(Len(a), Len(b)) + 1) |-> Limb(a, i) + Limb(b, i)])

\* The borrow from limb i of the limb differences s: generated at a limb
\* j < i and propagated by the limbs between
NBorrow(s, i) ==
    IF \E j \in 1..(i - 1) : s[j] < 0 /\ \A k \in (j + 1)..(i - 1) : s[k] = 0
    THEN 1 ELSE 0

NSubDiffs(s) == NNorm([i \in 1..Len(s) |-> (s[i] - NBorrow(s, i) + Base) % Base])

\* a - b, for a >= b
NSub(a, b) ==
    IF b = <<>> \/ a = <<>> THEN a
    ELSE NSubDiffs([i \in 1..Len(a) |-> a[i] - Limb(b, i)])

\* a against b of the same length, D the limbs where they differ
NCmpAt(a, b, D) == IF D = {} THEN 0 ELSE IntCmp(a[SetMax(D)], b[SetMax(D)])

\* -1, 0, 1 as a < b, a = b, a > b
NCmp(a, b) ==
    IF Len(a) # Len(b) THEN IntCmp(Len(a), Len(b))
    ELSE NCmpAt(a, b, {i \in 1..Len(a) : a[i] # b[i]})

\* a * d, for 0 <= d < Base: the low halves of the limb products plus their
\* high halves one limb up
NMulSmall(a, d) ==
    IF d = 0 \/ a = <<>> THEN <<>>
    ELSE NAdd([i \in 1..Len(a) |-> (a[i] * d) % Base],
              [i \in 1..(Len(a) + 1) |-> IF i = 1 THEN 0 ELSE (a[i - 1] * d) \div Base])

\* a * Base
NUp(a) == IF a = <<>> THEN <<>> ELSE <<0>> \o a

\* a * (the limbs j.. of b)
RECURSIVE NMulFrom(_, _, _)
NMulFrom(a, b, j) ==
    IF j > Len(b) THEN <<>>
    ELSE NAdd(NMulSmall(a, b[j]), NUp(NMulFrom(a, b, j + 1)))

NMul(a, b) == IF a = <<>> \/ b = <<>> THEN <<>> ELSE NMulFrom(a, b, 1)

\* a * 2^(LimbBits * w + s), for s < LimbBits
NShlBy(a, w, s) ==
    NNorm([i \in 1..(Len(a) + w + 1) |->
              IF i <= w THEN 0
              ELSE ((Limb(a, i - w) * 2^s) % Base)
                   + (Limb(a, i - w - 1) \div 2^(LimbBits - s))])

\* a * 2^k
NShl(a, k) == IF a = <<>> THEN <<>> ELSE NShlBy(a, k \div LimbBits, k % LimbBits)

\* floor(a / 2^(LimbBits * w + s)), for s < LimbBits and w < Len(a)
NShrBy(a, w, s) ==
    NNorm([i \in 1..(Len(a) - w) |->
              (a[i + w] \div 2^s) + ((Limb(a, i + w + 1) % 2^s) * 2^(LimbBits - s))])

\* floor(a / 2^k)
NShr(a, k) ==
    IF k \div LimbBits >= Len(a) THEN <<>> ELSE NShrBy(a, k \div LimbBits, k % LimbBits)

\* a mod 2^(LimbBits * w + s), for s < LimbBits
NLowBy(a, w, s) ==
    NNorm([i \in 1..(w + 1) |-> IF i <= w THEN Limb(a, i) ELSE Limb(a, i) % 2^s])

\* a mod 2^k
NLow(a, k) == IF a = <<>> THEN <<>> ELSE NLowBy(a, k \div LimbBits, k % LimbBits)

\* the number of bits of n < Base
IntBitLen(n) == Cardinality({k \in 0..(LimbBits - 1) : 2^k <= n})

NBitLen(a) ==
    IF a = <<>> THEN 0 ELSE LimbBits * (Len(a) - 1) + IntBitLen(a[Len(a)])

NIsOdd(a) == a # <<>> /\ a[1] % 2 = 1

\* The largest d <= qhat with b * d <= r
RECURSIVE NDigitFix(_, _, _)
NDigitFix(r, b, qhat) ==
    IF NCmp(NMulSmall(b, qhat), r) <= 0 THEN qhat ELSE NDigitFix(r, b, qhat - 1)

\* r / b estimated from the leading LimbBits bits of b, the bits below sh:
\* not too small, and at most 3 too large
NDigitEst(r, b, sh) == Min(Base - 1, NToInt(NShr(r, sh)) \div NToInt(NShr(b, sh)))

\* floor(r / b) for r < b * Base
NDigit(r, b) ==
    IF NCmp(r, b) < 0 THEN 0
    ELSE NDigitFix(r, b, NDigitEst(r, b, Max(NBitLen(b) - LimbBits, 0)))

\* r * Base + d
NPush(d, r) == IF r = <<>> /\ d = 0 THEN <<>> ELSE <<d>> \o r

\* One step of the long division of a by b: st.q the quotient of the limbs
\* of a above limb i (lowest limb first), st.r their remainder
NDivDigit(b, st, r1, d) ==
    [q |-> <<d>> \o st.q, r |-> IF d = 0 THEN r1 ELSE NSub(r1, NMulSmall(b, d))]

NDivStep(a, b, i, st) == NDivDigit(b, st, NPush(a[i], st.r), NDigit(NPush(a[i], st.r), b))

\* The steps at the limbs k, k - 1 .. 1 of a, of which Len(st.q) are done
RECURSIVE NDivLoop(_, _, _, _)
NDivLoop(a, b, k, st) ==
    IF Len(st.q) >= k THEN st
    ELSE NDivLoop(a, b, k, NDivStep(a, b, k - Len(st.q), st))

\* floor(a / b) for b # 0: the limbs of a above the first Len(a) - Len(b) + 1
\* are less than b, the division starts below them
NDiv(a, b) ==
    IF Len(a) < Len(b) THEN <<>>
    ELSE NNorm(NDivLoop(a, b, Len(a) - Len(b) + 1,
                        [q |-> <<>>,
                         r |-> NNorm(SubSeq(a, Len(a) - Len(b) + 2, Len(a)))]).q)

\* Newton's iteration for floor(sqrt(n)) from x > sqrt(n), y the next iterate
RECURSIVE NSqrtFrom(_, _, _)
NSqrtFrom(n, x, y) ==
    IF NCmp(y, x) >= 0 THEN x ELSE NSqrtFrom(n, y, NShr(NAdd(y, NDiv(n, y)), 1))

NSqrtStart(n, x) == NSqrtFrom(n, x, NShr(NAdd(x, NDiv(n, x)), 1))

\* floor(sqrt(n))
NSqrt(n) ==
    IF n = <<>> THEN <<>> ELSE NSqrtStart(n, NShl(<<1>>, (NBitLen(n) + 1) \div 2))

(***************************************************************************)
(* binary64: [sgn, man, exp] is (-1)^sgn * man * 2^exp with man of exactly *)
(* MantBits bits, or zero.                                                 *)
(***************************************************************************)
MantBits == 53

FZero == [sgn |-> 0, man |-> <<>>, exp |-> 0]

\* q * 2^e for q of MantBits or MantBits + 1 bits, the latter a power of 2
FPack(sgn, q, e) ==
    IF NBitLen(q) > MantBits THEN [sgn |-> sgn, man |-> NShr(q, 1), exp |-> e + 1]
    ELSE [sgn |-> sgn, man |-> q, exp |-> e]

\* q the bits of n above the low sh bits, c the low bits against half
FRoundUp(sgn, q, e, c, sticky) ==
    IF c > 0 \/ (c = 0 /\ (sticky \/ NIsOdd(q))) THEN FPack(sgn, NAdd(q, <<1>>), e)
    ELSE FPack(sgn, q, e)

FRoundCut(sgn, n, e, sticky, sh) ==
    FRoundUp(sgn, NShr(n, sh), e + sh, NCmp(NLow(n, sh), NShl(<<1>>, sh - 1)), sticky)

FRoundFill(sgn, n, e, sh) == [sgn |-> sgn, man |-> NShl(n, sh), exp |-> e - sh]

\* n * 2^e (plus a nonzero amount below the last bit of n when sticky)
\* rounded to nearest, ties to even
FRound(sgn, n, e, sticky) ==
    IF n = <<>> THEN FZero
    ELSE IF NBitLen(n) <= MantBits THEN FRoundFill(sgn, n, e, MantBits - NBitLen(n))
    ELSE FRoundCut(sgn, n, e, sticky, NBitLen(n) - MantBits)

FromInt(n) == FRound(IF n < 0 THEN 1 ELSE 0, NFromInt(IF n < 0 THEN -n ELSE n), 0, FALSE)

FIsZero(x) == x.man = <<>>

FNeg(x) == IF x.man = <<>> THEN x ELSE [x EXCEPT !.sgn = 1 - x.sgn]

\* mx * 2^e of sign sx plus my * 2^e of sign sy # sx, c is mx against my
FAddDiff(sx, sy, mx, my, e, c) ==
    IF c = 0 THEN FZero
    ELSE IF c > 0 THEN FRound(sx, NSub(mx, my), e, FALSE)
    ELSE FRound(sy, NSub(my, mx), e, FALSE)

FAddMan(sx, sy, mx, my, e) ==
    IF sx = sy THEN FRound(sx, NAdd(mx, my), e, FALSE)
    ELSE FAddDiff(sx, sy, mx, my, e, NCmp(mx, my))

FAddAt(x, y, e) ==
    FAddMan(x.sgn, y.sgn, NShl(x.man, x.exp - e), NShl(y.man, y.exp - e), e)

FAdd(x, y) ==
    IF x.man = <<>> THEN y
    ELSE IF y.man = <<>> THEN x
    ELSE FAddAt(x, y, Min(x.exp, y.exp))

FSub(x, y) == FAdd(x, FNeg(y))

FMul(x, y) ==
    IF x.man = <<>> \/ y.man = <<>> THEN FZero
    ELSE FRound((x.sgn + y.sgn) % 2, NMul(x.man, y.man), x.exp + y.exp, FALSE)

\* the quotient q of n by the mantissa b, inexact when q * b # n
FDivRound(sgn, n, b, q, e) == FRound(sgn, q, e, NMul(q, b) # n)

FDivMan(sgn, n, b, e) == FDivRound(sgn, n, b, NDiv(n, b), e)

\* x / y for y # 0
FDiv(x, y) ==
    IF y.man # <<>> /\ x.man = <<>> THEN FZero
    ELSE FDivMan((x.sgn + y.sgn) % 2, NShl(x.man, 4 * LimbBits), y.man,
                 x.exp - y.exp - 4 * LimbBits)

\* the root r of n, inexact when r * r # n
FSqrtRound(n, r, e) == FRound(0, r, e, NMul(r, r) # n)

FSqrtMan(n, e) == FSqrtRound(n, NSqrt(n), e)

\* sqrt(x) for x >= 0
FSqrt(x) ==
    IF x.man = <<>> THEN FZero
    ELSE FSqrtMan(NShl(x.man, 4 * LimbBits + (x.exp % 2)),
                  (x.exp - 4 * LimbBits - (x.exp % 2)) \div 2)

FSign(x) == IF x.man = <<>> THEN 0 ELSE IF x.sgn = 1 THEN -1 ELSE 1

\* -1, 0, 1 as x < y, x = y, x > y
FCmp(x, y) == FSign(FSub(x, y))

FLt(x, y) == FCmp(x, y) < 0

\* the double nearest to p/q: an int / int true division, or a decimal literal
FRat(p, q) == FDiv(FromInt(p), FromInt(q))

(***************************************************************************)
(* JSON values of a report file.  A dict is its set of keys and the value  *)
(* at each key; every value that is neither a dict nor an integer (a       *)
(* string, null, a list) is JOther.                                        *)
(***************************************************************************)
JInt(k) == [type |-> "int", val |-> k]
JOther == [type |-> "other"]
JDict(ks, f) == [type |-> "dict", keys |-> ks, at |-> f]
JEmpty == JDict({}, [k \in {} |-> JOther])

\* dict.get(key, default)
DictGet(d, key, default) == IF key \in d.keys THEN d.at[key] ELSE default

\* the report of a trial: absent, present but open() or json.load() raises,
\* or present with JSON data
NoFile == [exists |-> FALSE]
BadFile == [exists |-> TRUE, loads |-> FALSE]
JsonFile(d) == [exists |-> TRUE, loads |-> TRUE, data |-> d]
SummaryOf(ks, f) == JDict({"summary"}, [k \in {"summary"} |-> JDict(ks, f)])

\* Python's None, also the value of an optional key a result does not have;
\* Some(v) is an argument that is given
None == [none |-> TRUE]
Some(v) == [some |-> v]

\* The try block of parse_test_result raises: json.load fails, .get on a
\* value that is no dict, total > 0 on a total that is no number, or
\* passed / total on a passed that is no number
ParseRaises(output_file) ==
    \/ ~output_file.loads
    \/ output_file.data.type # "dict"
    \/ LET summary == DictGet(output_file.data, "summary", JEmpty)
       IN  \/ summary.type # "dict"
           \/ LET passed == DictGet(summary, "passed", JInt(0))
                  total == DictGet(summary, "total", JInt(1))
              IN  \/ total.type # "int"
                  \/ total.val > 0 /\ passed.type # "int"

\* the result dict without the optional keys
TrialResult(run_number, execution_time, pass_rate, passed, total, return_code) ==
    [run_number |-> run_number, execution_time |-> execution_time,
     pass_rate |-> pass_rate, tests_passed |-> passed, tests_total |-> total,
     return_code |-> return_code]

\* `if markers:` and `if seed:` add the keys only for a true value
WithOptional(result, markers, seed) ==
    [k \in DOMAIN result \cup {"markers", "seed"} |->
        IF k = "markers" THEN (IF markers # None /\ markers # Some("") THEN markers ELSE None)
        ELSE IF k = "seed" THEN (IF seed # None /\ seed # Some(0) THEN seed ELSE None)
        ELSE result[k]]

\* a pass rate of 0 for a total of 0
PassRateOfZero(passed, total) ==
    IF total.val > 0 THEN FRat(passed.val, total.val) ELSE FZero

\* passed / total if total > 0 else None
PassRateOf(passed, total) ==
    IF total.val > 0 THEN FRat(passed.val, total.val) ELSE None

\* the result of a report that parsed
ParsedResult(summary, run_number, execution_time, return_code) ==
    TrialResult(run_number, execution_time,
                PassRateOf(DictGet(summary, "passed", JInt(0)),
                           DictGet(summary, "total", JInt(1))),
                DictGet(summary, "passed", JInt(0)), DictGet(summary, "total", JInt(1)),
                return_code)

\* a default result that forgets the return code
DefaultResultNoCode(run_number, execution_time, return_code) ==
    TrialResult(run_number, execution_time, None, JInt(0), JInt(0), 0)

\* the default result, of a report that is missing or failed to parse
DefaultResult(run_number, execution_time, return_code) ==
    TrialResult(run_number, execution_time, None, JInt(0), JInt(0), return_code)

parse_test_result(output_file, run_number, execution_time, return_code, markers, seed) ==
    IF output_file.exists /\ ~ParseRaises(output_file)
    THEN WithOptional(ParsedResult(DictGet(output_file.data, "summary", JEmpty),
                                   run_number, execution_time, return_code),
                      markers, seed)
    ELSE WithOptional(DefaultResult(run_number, execution_time, return_code),
                      markers, seed)

(***************************************************************************)
(* numpy on a list of fewer than 8 doubles: add.reduce adds the elements   *)
(* to 0 from left to right.                                                *)
(***************************************************************************)
RECURSIVE NpSum(_)
NpSum(xs) == IF xs = <<>> THEN FZero ELSE FAdd(NpSum(SubSeq(xs, 1, Len(xs) - 1)), xs[Len(xs)])

\* np.mean of a list that is not empty
NpMean(xs) == FDiv(NpSum(xs), FromInt(Len(xs)))

FSquare(x) == FMul(x, x)

\* the root of the mean of the squared deviations from arrmean
NpStdFrom(xs, arrmean) ==
    FSqrt(FDiv(NpSum([i \in 1..Len(xs) |-> FSquare(FSub(xs[i], arrmean))]),
               FromInt(Len(xs))))

\* np.std of a list that is not empty
NpStd(xs) == NpStdFrom(xs, NpMean(xs))

\* r['pass_rate'] for r in results if r['pass_rate'] is not None
RECURSIVE PassRates(_)
PassRates(results) ==
    IF results = <<>> THEN <<>>
    ELSE IF results[Len(results)].pass_rate # None
    THEN Append(PassRates(SubSeq(results, 1, Len(results) - 1)),
                results[Len(results)].pass_rate)
    ELSE PassRates(SubSeq(results, 1, Len(results) - 1))

\* the coefficient of variation without the special case of a varying
\* collection of mean 0
FlakinessOfNoSpecialCase(mean_rate, std_rate) ==
    IF FIsZero(mean_rate) THEN FZero ELSE FDiv(std_rate, mean_rate)

\* 1.0 for every mean of 0, varying or not
FlakinessOfMeanZeroOne(mean_rate, std_rate) ==
    IF FIsZero(mean_rate) THEN FromInt(1) ELSE FDiv(std_rate, mean_rate)

\* the coefficient of variation, and its special case of a mean of 0
FlakinessOf(mean_rate, std_rate) ==
    IF FIsZero(mean_rate)
    THEN (IF FLt(FZero, std_rate) THEN FromInt(1) ELSE FZero)
    ELSE FDiv(std_rate, mean_rate)

FlakinessOfRates(pass_rates) ==
    IF pass_rates = <<>> THEN FZero
    ELSE FlakinessOf(NpMean(pass_rates), NpStd(pass_rates))

\* an index of 1 for no result at all
calculate_flakiness_index_one(results) ==
    IF results = <<>> THEN FromInt(1) ELSE FlakinessOfRates(PassRates(results))

calculate_flakiness_index(results) ==
    IF results = <<>> THEN FZero ELSE FlakinessOfRates(PassRates(results))

(***************************************************************************)
(* The runners.  One run of run_experiments of one runner is followed for  *)
(* one configuration (baseline) or one strategy (mitigation): the loop     *)
(* over the trials, then the statistics of the collected trials.           *)
(***************************************************************************)
MaxRuns == 3

\* StudyConfiguration.seeds, one of the default seeds
Seeds == <<42>>

\* the entry of BASELINE_CONFIGURATIONS that is followed
Configuration == [name |-> "randomness", markers |-> "randomness"]

\* What a pytest subprocess can leave behind: the report file, the time it
\* took (seconds) and its return code
Report(passed, total) ==
    JsonFile(SummaryOf({"passed", "total"},
                       [k \in {"passed", "total"} |->
                           IF k = "passed" THEN JInt(passed) ELSE JInt(total)]))

RunOutcomes ==
    { [file |-> NoFile, execution_time |-> FromInt(4), return_code |-> 2],
      [file |-> Report(0, 5), execution_time |-> FromInt(3), return_code |-> 1],
      [file |-> Report(1, 5), execution_time |-> FromInt(2), return_code |-> 1],
      [file |-> Report(-1, 5), execution_time |-> FromInt(1), return_code |-> 1],
      [file |-> JsonFile(SummaryOf({"passed"}, [k \in {"passed"} |-> JInt(2)])),
       execution_time |-> FromInt(1), return_code |-> 0] }

VARIABLES
    pc,                 \* the runner and where it is, or "call" and "returned"
    config,             \* the StudyConfiguration
    config_results,     \* BaselineRunner.run_experiments: the trials collected
    baseline_data,      \* ... and the records of the configurations done
    strategy_results,   \* MitigationRunner.run_experiments: the trials collected
    mitigation_data,    \* ... and the records of the strategies done
    call,               \* a call of one function on its own: the function and its arguments
    result,             \* ... and what it returned
    phase,              \* run_study: the phase of the last step taken (history)
    conftest,           \* whether the file tests/conftest.py exists
    shared_counter,     \* test_flaky_race: shared_counter["value"]
    threads             \* ... and each thread's position, turn and local "current"

vars == <<pc, config, config_results, baseline_data, strategy_results, mitigation_data,
          call, result, phase, conftest, shared_counter, threads>>

Init ==
    /\ pc \in {"baseline", "mitigation"}
    /\ \E runs \in 0..MaxRuns, skip \in BOOLEAN :
          config = [baseline_runs |-> runs, mitigation_runs |-> runs, seeds |-> Seeds,
                    skip_baseline |-> skip, skip_mitigation |-> skip]
    /\ config_results = <<>>
    /\ baseline_data = <<>>
    /\ strategy_results = <<>>
    /\ mitigation_data = <<>>
    /\ call = None
    /\ result = None
    /\ phase = "none"
    /\ conftest = FALSE
    /\ shared_counter = 0
    /\ threads = <<>>

\* r for r in results if r['pass_rate'] is not None
RECURSIVE ValidResults(_)
RECURSIVE ValidResultsButLast(_)

\* the valid results, the last trial left out
ValidResultsButLast(results) ==
    IF results = <<>> THEN <<>> ELSE ValidResults(SubSeq(results, 1, Len(results) - 1))

ValidResults(results) ==
    IF results = <<>> THEN <<>>
    ELSE IF results[Len(results)].pass_rate # None
    THEN Append(ValidResults(SubSeq(results, 1, Len(results) - 1)), results[Len(results)])
    ELSE ValidResults(SubSeq(results, 1, Len(results) - 1))

\* r['pass_rate'] for r in valid_results
RatesOf(results) == [i \in 1..Len(results) |-> results[i].pass_rate]

\* r['execution_time'] for r in valid_results
ExecutionTimes(results) == [i \in 1..Len(results) |-> results[i].execution_time]

\* skip_baseline: run_experiments returns {}
BaselineSkip ==
    /\ pc = "baseline"
    /\ config.skip_baseline
    /\ pc' = "baseline_done"
    /\ UNCHANGED <<phase, conftest, shared_counter, threads>>
    /\ UNCHANGED <<config, config_results, baseline_data, strategy_results, mitigation_data,
                   call, result>>

\* one turn of the loops over the seeds and the runs: _execute_test_run and
\* the append of its result
BaselineExecuteTestRun ==
    /\ pc = "baseline"
    /\ ~config.skip_baseline
    /\ Len(config_results) < Len(config.seeds) * config.baseline_runs
    /\ \E o \in RunOutcomes :
          LET seed == config.seeds[(Len(config_results) \div config.baseline_runs) + 1]
              run == (Len(config_results) % config.baseline_runs) + 1
          IN  config_results' =
                  Append(config_results,
                         parse_test_result(o.file, run, o.execution_time, o.return_code,
                                           Some(Configuration.markers), Some(seed)))
    /\ UNCHANGED <<pc, config, baseline_data, strategy_results, mitigation_data, call, result>>
    /\ UNCHANGED <<phase, conftest, shared_counter, threads>>

\* the statistics of the configuration, after its last run
BaselineAggregate ==
    /\ pc = "baseline"
    /\ ~config.skip_baseline
    /\ Len(config_results) = Len(config.seeds) * config.baseline_runs
    /\ LET valid_results == ValidResults(config_results)
       IN  baseline_data' =
               Append(baseline_data,
                      [configuration |-> Configuration,
                       total_runs |-> Len(config_results),
                       valid_runs |-> Len(valid_results),
                       avg_pass_rate |-> IF valid_results # <<>>
                                         THEN NpMean(RatesOf(valid_results)) ELSE FZero,
                       std_pass_rate |-> IF valid_results # <<>>
                                         THEN NpStd(RatesOf(valid_results)) ELSE FZero,
                       flakiness_index |-> calculate_flakiness_index(valid_results)])
    /\ pc' = "baseline_done"
    /\ UNCHANGED <<phase, conftest, shared_counter, threads>>
    /\ UNCHANGED <<config, config_results, strategy_results, mitigation_data, call, result>>

\* skip_mitigation: run_experiments returns {}
MitigationSkip ==
    /\ pc = "mitigation"
    /\ config.skip_mitigation
    /\ pc' = "mitigation_done"
    /\ UNCHANGED <<phase, conftest, shared_counter, threads>>
    /\ UNCHANGED <<config, config_results, baseline_data, strategy_results, mitigation_data,
                   call, result>>

\* one turn of the loop over the runs: the strategy's function and the
\* append of its result
MitigationExecuteRun ==
    /\ pc = "mitigation"
    /\ ~config.skip_mitigation
    /\ Len(strategy_results) < config.mitigation_runs
    /\ \E o \in RunOutcomes :
          strategy_results' =
              Append(strategy_results,
                     parse_test_result(o.file, Len(strategy_results) + 1, o.execution_time,
                                       o.return_code, None, None))
    /\ UNCHANGED <<pc, config, config_results, baseline_data, mitigation_data, call, result>>
    /\ UNCHANGED <<phase, conftest, shared_counter, threads>>

\* the statistics of the strategy, after its last run
MitigationAggregate ==
    /\ pc = "mitigation"
    /\ ~config.skip_mitigation
    /\ Len(strategy_results) = config.mitigation_runs
    /\ LET valid_results == ValidResults(strategy_results)
       IN  mitigation_data' =
               Append(mitigation_data,
                      [strategy |-> "retries",
                       total_runs |-> Len(strategy_results),
                       valid_runs |-> Len(valid_results),
                       avg_pass_rate |-> IF valid_results # <<>>
                                         THEN NpMean(RatesOf(valid_results)) ELSE FZero,
                       std_pass_rate |-> IF valid_results # <<>>
                                         THEN NpStd(RatesOf(valid_results)) ELSE FZero,
                       avg_execution_time |-> IF valid_results # <<>>
                                              THEN NpMean(ExecutionTimes(valid_results))
                                              ELSE FZero])
    /\ pc' = "mitigation_done"
    /\ UNCHANGED <<phase, conftest, shared_counter, threads>>
    /\ UNCHANGED <<config, config_results, baseline_data, strategy_results, call, result>>

Next ==
    \/ BaselineSkip
    \/ BaselineExecuteTestRun
    \/ BaselineAggregate
    \/ MitigationSkip
    \/ MitigationExecuteRun
    \/ MitigationAggregate

Spec == Init /\ [][Next]_vars

(***************************************************************************)
(* parse_test_result on its own: any report, whatever the call.            *)
(***************************************************************************)
MaxTests == 3

\* what a summary can hold at 'passed' and at 'total'
SummaryValues == {JOther} \cup {JInt(k) : k \in (-1)..MaxTests}

\* the summaries: each of 'passed' and 'total' absent or with a value
Summaries ==
    {JEmpty}
    \cup {JDict({"passed"}, [k \in {"passed"} |-> p]) : p \in SummaryValues}
    \cup {JDict({"total"}, [k \in {"total"} |-> t]) : t \in SummaryValues}
    \cup {JDict({"passed", "total"},
                [k \in {"passed", "total"} |-> IF k = "passed" THEN p ELSE t]) :
             p \in SummaryValues, t \in SummaryValues}

ReportFiles ==
    {NoFile, BadFile, JsonFile(JOther), JsonFile(JEmpty),
     JsonFile(JDict({"summary"}, [k \in {"summary"} |-> JOther]))}
    \cup {JsonFile(JDict({"summary"}, [k \in {"summary"} |-> d])) : d \in Summaries}

\* the other arguments of a call: of the baseline runner (markers and seed
\* given, possibly false ones) and of a strategy (neither given)
ParseCalls ==
    {[fn |-> "parse_test_result", output_file |-> f, run_number |-> n,
      execution_time |-> FromInt(n + 1), return_code |-> rc,
      markers |-> ms[1], seed |-> ms[2]] :
        f \in ReportFiles, n \in 1..2, rc \in {0, 1},
        ms \in {<<None, None>>, <<Some("flaky"), Some(42)>>, <<Some(""), Some(0)>>}}

InitCall ==
    /\ pc = "call"
    /\ config = None
    /\ config_results = <<>>
    /\ baseline_data = <<>>
    /\ strategy_results = <<>>
    /\ mitigation_data = <<>>
    /\ call = None
    /\ result = None
    /\ phase = "none"
    /\ conftest = FALSE
    /\ shared_counter = 0
    /\ threads = <<>>

ParseTestResult ==
    /\ pc = "call"
    /\ \E c \in ParseCalls :
          /\ call' = c
          /\ result' = parse_test_result(c.output_file, c.run_number, c.execution_time,
                                         c.return_code, c.markers, c.seed)
    /\ pc' = "returned"
    /\ UNCHANGED <<phase, conftest, shared_counter, threads>>
    /\ UNCHANGED <<config, config_results, baseline_data, strategy_results, mitigation_data>>

NextParse == ParseTestResult

SpecParse == InitCall /\ [][NextParse]_vars

(***************************************************************************)
(* FlakynessClassifier: the two ladders of thresholds and the notes.       *)
(***************************************************************************)
\* the bands with `<=` for `<`: a boundary value in the lower band
classify_severity_le(flakiness_index) ==
    IF FCmp(flakiness_index, FRat(1, 10)) <= 0 THEN "low"
    ELSE IF FCmp(flakiness_index, FRat(3, 10)) <= 0 THEN "moderate"
    ELSE IF FCmp(flakiness_index, FRat(6, 10)) <= 0 THEN "high"
    ELSE "severe"

classify_severity(flakiness_index) ==
    IF FLt(flakiness_index, FRat(1, 10)) THEN "low"
    ELSE IF FLt(flakiness_index, FRat(3, 10)) THEN "moderate"
    ELSE IF FLt(flakiness_index, FRat(6, 10)) THEN "high"
    ELSE "severe"

\* the ladder taken from its top: everything below 0.3 in the third band
classify_predictability_top(std_pass_rate) ==
    IF FLt(std_pass_rate, FRat(3, 10)) THEN "low_predictability"
    ELSE IF FLt(std_pass_rate, FRat(2, 10)) THEN "moderately_predictable"
    ELSE IF FLt(std_pass_rate, FRat(1, 10)) THEN "highly_predictable"
    ELSE "unpredictable"

classify_predictability(std_pass_rate) ==
    IF FLt(std_pass_rate, FRat(1, 10)) THEN "highly_predictable"
    ELSE IF FLt(std_pass_rate, FRat(2, 10)) THEN "moderately_predictable"
    ELSE IF FLt(std_pass_rate, FRat(3, 10)) THEN "low_predictability"
    ELSE "unpredictable"

\* the table of get_implementation_notes
Notes ==
    {<<"randomness", "mocking", "Mock random number generators with fixed values">>,
     <<"randomness", "retries", "Multiple attempts may eventually succeed due to randomness">>,
     <<"timeout", "isolation", "Run tests in isolated processes to reduce resource contention">>,
     <<"timeout", "retries", "Retry failed tests as timing issues may be transient">>,
     <<"order", "isolation", "Essential for preventing state sharing between tests">>,
     <<"order", "mocking", "Mock shared resources to prevent state conflicts">>,
     <<"external", "mocking", "Mock all external API calls and services">>,
     <<"external", "retries", "Retry on network failures or service unavailability">>,
     <<"race", "isolation", "Run tests in separate processes to eliminate race conditions">>,
     <<"race", "mocking", "Mock concurrent operations to ensure deterministic behavior">>}

\* the note that names neither the strategy nor the type
get_implementation_notes_fixed(flaky_type, strategy) ==
    IF \E n \in Notes : n[1] = flaky_type /\ n[2] = strategy
    THEN (CHOOSE n \in Notes : n[1] = flaky_type /\ n[2] = strategy)[3]
    ELSE "Apply strategy for tests"

\* notes.get((flaky_type, strategy), f"Apply {strategy} strategy for {flaky_type} tests")
get_implementation_notes(flaky_type, strategy) ==
    IF \E n \in Notes : n[1] = flaky_type /\ n[2] = strategy
    THEN (CHOOSE n \in Notes : n[1] = flaky_type /\ n[2] = strategy)[3]
    ELSE "Apply " \o strategy \o " strategy for " \o flaky_type \o " tests"

\* The doubles next to x # 0 on either side, away from the powers of 2
FNext(x) == FPack(x.sgn, NAdd(x.man, <<1>>), x.exp)
FPrev(x) == [x EXCEPT !.man = NSub(x.man, <<1>>)]

\* the thresholds of the two ladders
Thresholds == {FRat(1, 10), FRat(2, 10), FRat(3, 10), FRat(6, 10)}

\* The inputs of the ladders: the hundredths from -0.05 to 0.65, the doubles
\* on either side of each threshold, and values far out of range
ClassifierInputs ==
    {FRat(k, 100) : k \in (-5)..65}
    \cup {FNext(t) : t \in Thresholds} \cup {FPrev(t) : t \in Thresholds}
    \cup {FromInt(-3), FromInt(1), FromInt(7)}

\* the types and the strategies of the study, and names that are neither
FlakyTypeNames == {"randomness", "timeout", "order", "external", "race", "flaky", ""}
StrategyNames == {"retries", "mocking", "isolation", "combined", "none"}

ClassifySeverity ==
    /\ pc = "call"
    /\ \E x \in ClassifierInputs :
          /\ call' = [fn |-> "classify_severity", x |-> x]
          /\ result' = classify_severity(x)
    /\ pc' = "returned"
    /\ UNCHANGED <<phase, conftest, shared_counter, threads>>
    /\ UNCHANGED <<config, config_results, baseline_data, strategy_results, mitigation_data>>

ClassifyPredictability ==
    /\ pc = "call"
    /\ \E x \in ClassifierInputs :
          /\ call' = [fn |-> "classify_predictability", x |-> x]
          /\ result' = classify_predictability(x)
    /\ pc' = "returned"
    /\ UNCHANGED <<phase, conftest, shared_counter, threads>>
    /\ UNCHANGED <<config, config_results, baseline_data, strategy_results, mitigation_data>>

GetImplementationNotes ==
    /\ pc = "call"
    /\ \E t \in FlakyTypeNames, st \in StrategyNames :
          /\ call' = [fn |-> "get_implementation_notes", flaky_type |-> t, strategy |-> st]
          /\ result' = get_implementation_notes(t, st)
    /\ pc' = "returned"
    /\ UNCHANGED <<phase, conftest, shared_counter, threads>>
    /\ UNCHANGED <<config, config_results, baseline_data, strategy_results, mitigation_data>>

NextClassifier ==
    \/ ClassifySeverity
    \/ ClassifyPredictability
    \/ GetImplementationNotes

SpecClassifier == InitCall /\ [][NextClassifier]_vars

(***************************************************************************)
(* The helpers of the analysis: calculate_effectiveness_score and          *)
(* generate_strategy_recommendation, in float64 as the code computes them. *)
(***************************************************************************)
FGt(x, y) == FCmp(x, y) > 0

\* min(a, b) and max(a, b) of Python: the first argument unless the second
\* is strictly smaller (larger)
PyMin(a, b) == IF FLt(b, a) THEN b ELSE a
PyMax(a, b) == IF FGt(b, a) THEN b ELSE a

\* (improvement_score * 0.7) - (overhead_penalty * 0.3), floored at 0.0
EffectivenessOf(improvement_score, overhead_penalty) ==
    PyMax(FSub(FMul(improvement_score, FRat(7, 10)), FMul(overhead_penalty, FRat(3, 10))),
          FZero)

calculate_effectiveness_score(improvement_percent, overhead_percent) ==
    EffectivenessOf(PyMin(FDiv(improvement_percent, FromInt(100)), FromInt(1)),
                    PyMin(FDiv(overhead_percent, FromInt(100)), FromInt(1)))

\* the rules with the third one tried before the second
generate_strategy_recommendation_swapped(strategy, roi, effectiveness) ==
    IF FGt(roi, FromInt(2)) /\ FGt(effectiveness, FRat(5, 10))
    THEN "Highly recommended - excellent ROI and effectiveness"
    ELSE IF FGt(effectiveness, FRat(6, 10))
    THEN "Consider if effectiveness is priority over cost"
    ELSE IF FGt(roi, FromInt(1)) /\ FGt(effectiveness, FRat(3, 10))
    THEN "Recommended - good balance of cost and benefit"
    ELSE IF FGt(roi, FRat(5, 10))
    THEN "Consider for cost-sensitive environments"
    ELSE "Not recommended - poor cost-benefit ratio"

generate_strategy_recommendation(strategy, roi, effectiveness) ==
    IF FGt(roi, FromInt(2)) /\ FGt(effectiveness, FRat(5, 10))
    THEN "Highly recommended - excellent ROI and effectiveness"
    ELSE IF FGt(roi, FromInt(1)) /\ FGt(effectiveness, FRat(3, 10))
    THEN "Recommended - good balance of cost and benefit"
    ELSE IF FGt(effectiveness, FRat(6, 10))
    THEN "Consider if effectiveness is priority over cost"
    ELSE IF FGt(roi, FRat(5, 10))
    THEN "Consider for cost-sensitive environments"
    ELSE "Not recommended - poor cost-benefit ratio"

\* the percentages tried: below -100, negative, 0, in range, 100 and above
ScorePercents == {FromInt(k) : k \in {-200, -100, -50, -10, 0, 10, 50, 100, 150, 200}}

\* a float64 just below x > 0, a power of 2 included
FBelow(x) == FRound(x.sgn, NSub(x.man, <<1>>), x.exp, FALSE)

\* a value, a float64 just below it and the float64 above it
FAround(x) == {FBelow(x), x, FNext(x)}

\* the returns on investment and the effectiveness scores tried: the
\* thresholds of the rules, their neighbours, and values far from them
RoiInputs ==
    FAround(FRat(5, 10)) \cup FAround(FromInt(1)) \cup FAround(FromInt(2))
        \cup {FromInt(-1), FZero, FromInt(3)}

EffectivenessInputs ==
    FAround(FRat(3, 10)) \cup FAround(FRat(5, 10)) \cup FAround(FRat(6, 10))
        \cup {FZero, FromInt(1)}

CalculateEffectivenessScore ==
    /\ pc = "call"
    /\ \E improvement_percent \in ScorePercents, overhead_percent \in ScorePercents :
          /\ call' = [fn |-> "calculate_effectiveness_score",
                      improvement_percent |-> improvement_percent,
                      overhead_percent |-> overhead_percent]
          /\ result' = calculate_effectiveness_score(improvement_percent, overhead_percent)
    /\ pc' = "returned"
    /\ UNCHANGED <<phase, conftest, shared_counter, threads>>
    /\ UNCHANGED <<config, config_results, baseline_data, strategy_results, mitigation_data>>

GenerateStrategyRecommendation ==
    /\ pc = "call"
    /\ \E roi \in RoiInputs, effectiveness \in EffectivenessInputs :
          /\ call' = [fn |-> "generate_strategy_recommendation",
                      roi |-> roi, effectiveness |-> effectiveness]
          /\ result' = generate_strategy_recommendation("retries", roi, effectiveness)
    /\ pc' = "returned"
    /\ UNCHANGED <<phase, conftest, shared_counter, threads>>
    /\ UNCHANGED <<config, config_results, baseline_data, strategy_results, mitigation_data>>

NextHelpers ==
    \/ CalculateEffectivenessScore
    \/ GenerateStrategyRecommendation

SpecHelpers == InitCall /\ [][NextHelpers]_vars

(***************************************************************************)
(* DataAnalyzer.  A dict is the sequence of its items in insertion order,  *)
(* each item a record with the key in its field name.  np.mean of no value *)
(* is NaN; NaN is not greater than 0.                                      *)
(***************************************************************************)
NaN == [nan |-> TRUE]

Keys(d) == {d[i].name : i \in 1..Len(d)}

\* d[key], for a key of d
Item(d, key) == d[CHOOSE i \in 1..Len(d) : d[i].name = key]

\* baseline_results.get('all_flaky', {})
AllFlakyBaseline(baseline_results) ==
    IF "all_flaky" \in Keys(baseline_results) THEN Some(Item(baseline_results, "all_flaky"))
    ELSE None

\* all_flaky_baseline.get('avg_pass_rate', 0)
BaselinePassRate(all_flaky_baseline) ==
    IF all_flaky_baseline = None THEN FZero ELSE all_flaky_baseline.some.avg_pass_rate

NpMeanOrNaN(xs) == IF xs = <<>> THEN NaN ELSE NpMean(xs)

\* np.mean of the execution times of all_flaky_baseline.get('results', [])
BaselineExecutionTime(all_flaky_baseline) ==
    IF all_flaky_baseline = None THEN NaN
    ELSE NpMeanOrNaN(ExecutionTimes(all_flaky_baseline.some.results))

\* the relative improvement without the factor 100
ImprovementRelativeFraction(improvement_absolute, baseline_pass_rate) ==
    IF FGt(baseline_pass_rate, FZero) THEN FDiv(improvement_absolute, baseline_pass_rate)
    ELSE FZero

ImprovementRelative(improvement_absolute, baseline_pass_rate) ==
    IF FGt(baseline_pass_rate, FZero)
    THEN FMul(FDiv(improvement_absolute, baseline_pass_rate), FromInt(100))
    ELSE FZero

\* x - y, NaN for y = NaN
FSubNaN(x, y) == IF y = NaN THEN NaN ELSE FSub(x, y)

\* the overhead relative to the time of the strategy
TimeOverheadOfStrategy(strategy_execution_time, baseline_execution_time) ==
    IF baseline_execution_time # NaN /\ FGt(baseline_execution_time, FZero)
          /\ ~FIsZero(strategy_execution_time)
    THEN FMul(FDiv(FSub(strategy_execution_time, baseline_execution_time),
                   strategy_execution_time), FromInt(100))
    ELSE FZero

TimeOverhead(strategy_execution_time, baseline_execution_time) ==
    IF baseline_execution_time # NaN /\ FGt(baseline_execution_time, FZero)
    THEN FMul(FDiv(FSub(strategy_execution_time, baseline_execution_time),
                   baseline_execution_time), FromInt(100))
    ELSE FZero

CostEffectiveness(improvement_relative, time_overhead) ==
    IF FGt(time_overhead, FZero)
    THEN FDiv(improvement_relative, PyMax(time_overhead, FromInt(1)))
    ELSE improvement_relative

\* effectiveness_analysis[strategy_name]
EffectivenessItem(strategy_name, improvement_absolute, improvement_relative, time_overhead, time_increase) ==
    [name |-> strategy_name,
     pass_rate_improvement |-> [absolute |-> improvement_absolute,
                                relative_percent |-> improvement_relative],
     performance_impact |-> [time_overhead_percent |-> time_overhead,
                             absolute_time_increase |-> time_increase],
     cost_effectiveness_ratio |-> CostEffectiveness(improvement_relative, time_overhead),
     effectiveness_score |-> calculate_effectiveness_score(improvement_relative, time_overhead)]

EffectivenessFrom(strategy_data, improvement_absolute, baseline_pass_rate, baseline_execution_time) ==
    EffectivenessItem(strategy_data.name,
                      improvement_absolute,
                      ImprovementRelative(improvement_absolute, baseline_pass_rate),
                      TimeOverhead(strategy_data.avg_execution_time, baseline_execution_time),
                      FSubNaN(strategy_data.avg_execution_time, baseline_execution_time))

\* the body of the loop over mitigation_results.items()
StrategyEffectiveness(strategy_data, baseline_pass_rate, baseline_execution_time) ==
    EffectivenessFrom(strategy_data,
                      FSub(strategy_data.avg_pass_rate, baseline_pass_rate),
                      baseline_pass_rate, baseline_execution_time)

EffectivenessAgainst(mitigation_results, all_flaky_baseline) ==
    [i \in 1..Len(mitigation_results) |->
        StrategyEffectiveness(mitigation_results[i],
                              BaselinePassRate(all_flaky_baseline),
                              BaselineExecutionTime(all_flaky_baseline))]

_analyze_mitigation_effectiveness(baseline_results, mitigation_results) ==
    IF mitigation_results = <<>> THEN <<>>
    ELSE EffectivenessAgainst(mitigation_results, AllFlakyBaseline(baseline_results))

\* the cost tables of study_config
IMPLEMENTATION_COSTS == [retries |-> 2, mocking |-> 6, isolation |-> 4, combined |-> 8]
MAINTENANCE_COSTS == [retries |-> 1, mocking |-> 7, isolation |-> 3, combined |-> 9]

\* a lookup whose default is 0
CostGetOrZero(costs, strategy_name, default) ==
    IF strategy_name \in DOMAIN costs THEN costs[strategy_name] ELSE 0

\* costs.get(strategy_name, default)
CostGet(costs, strategy_name, default) ==
    IF strategy_name \in DOMAIN costs THEN costs[strategy_name] ELSE default

\* impl_cost + maint_cost + (overhead / 10)
TotalCost(impl_cost, maint_cost, overhead) ==
    FAdd(FromInt(impl_cost + maint_cost), FDiv(overhead, FromInt(10)))

\* the benefit per unit of cost, the cost not subtracted
RoiOfBenefitOverCost(benefit, total_cost) ==
    IF FGt(total_cost, FZero) THEN FDiv(benefit, total_cost) ELSE FZero

\* (benefit - total_cost) / total_cost if total_cost > 0 else 0
RoiOf(benefit, total_cost) ==
    IF FGt(total_cost, FZero) THEN FDiv(FSub(benefit, total_cost), total_cost) ELSE FZero

\* cost_benefit[strategy_name]
CostBenefitItem(strategy_name, impl_cost, maint_cost, overhead_cost, total_cost, benefit, score, roi) ==
    [name |-> strategy_name,
     costs |-> [implementation |-> impl_cost, maintenance |-> maint_cost,
                performance_overhead |-> overhead_cost, total |-> total_cost],
     benefits |-> [improvement_score |-> benefit, effectiveness_score |-> score],
     roi |-> roi,
     recommendation |-> generate_strategy_recommendation(strategy_name, roi, score)]

CostBenefitFrom(strategy_name, impl_cost, maint_cost, overhead_cost, total_cost, benefit, score) ==
    CostBenefitItem(strategy_name, impl_cost, maint_cost, overhead_cost, total_cost, benefit,
                    score, RoiOf(benefit, total_cost))

\* the record of a strategy from its costs, its effectiveness score, its
\* relative improvement and its overhead
CostBenefitOf(strategy_name, impl_cost, maint_cost, score, improvement, overhead) ==
    CostBenefitFrom(strategy_name, impl_cost, maint_cost,
                    FDiv(overhead, FromInt(10)),
                    TotalCost(impl_cost, maint_cost, overhead),
                    FMul(improvement, FromInt(10)),
                    score)

\* effectiveness = {} there: the score, the improvement and the overhead
\* are the defaults 0
_analyze_cost_benefit(baseline_results, mitigation_results) ==
    [i \in 1..Len(mitigation_results) |->
        CostBenefitOf(mitigation_results[i].name,
                      CostGet(IMPLEMENTATION_COSTS, mitigation_results[i].name, 5),
                      CostGet(MAINTENANCE_COSTS, mitigation_results[i].name, 5),
                      FZero, FZero, FZero)]

\* the body of the loop of update_cost_benefit_with_effectiveness
UpdatedCostBenefit(item, strategy_effectiveness) ==
    CostBenefitOf(item.name, item.costs.implementation, item.costs.maintenance,
                  strategy_effectiveness.effectiveness_score,
                  strategy_effectiveness.pass_rate_improvement.relative_percent,
                  strategy_effectiveness.performance_impact.time_overhead_percent)

\* the records of _analyze_cost_benefit left as they are
cost_benefit_left(cost_benefit, effectiveness) == cost_benefit

\* update_cost_benefit_with_effectiveness: every record whose strategy has
\* an effectiveness record is computed again from it
update_cost_benefit_with_effectiveness(cost_benefit, effectiveness) ==
    [i \in 1..Len(cost_benefit) |->
        IF cost_benefit[i].name \in Keys(effectiveness)
        THEN UpdatedCostBenefit(cost_benefit[i], Item(effectiveness, cost_benefit[i].name))
        ELSE cost_benefit[i]]

\* mitigation_effectiveness of a FlakynessProfile, in the order of the dict
Effectiveness(retries, mocking, isolation, combined) ==
    <<[name |-> "retries", value |-> FRat(retries, 100)],
      [name |-> "mocking", value |-> FRat(mocking, 100)],
      [name |-> "isolation", value |-> FRat(isolation, 100)],
      [name |-> "combined", value |-> FRat(combined, 100)]>>

\* get_flakiness_profiles: the type, typical_pass_rate and
\* mitigation_effectiveness of the five profiles
get_flakiness_profiles ==
    <<[name |-> "randomness", typical_pass_rate |-> FRat(5, 10),
       mitigation_effectiveness |-> Effectiveness(30, 90, 10, 90)],
      [name |-> "timeout", typical_pass_rate |-> FRat(7, 10),
       mitigation_effectiveness |-> Effectiveness(60, 40, 80, 80)],
      [name |-> "order", typical_pass_rate |-> FRat(6, 10),
       mitigation_effectiveness |-> Effectiveness(20, 50, 90, 90)],
      [name |-> "external", typical_pass_rate |-> FRat(7, 10),
       mitigation_effectiveness |-> Effectiveness(70, 95, 30, 95)],
      [name |-> "race", typical_pass_rate |-> FRat(8, 10),
       mitigation_effectiveness |-> Effectiveness(40, 60, 90, 90)]>>

\* max(d.keys(), key=lambda k: d[k]) of Python: the items are visited in
\* the order of the dict and a later one replaces the best one so far only
\* when its value is greater
RECURSIVE MaxFrom(_, _, _)
MaxFrom(d, i, best) ==
    IF i > Len(d) THEN best
    ELSE MaxFrom(d, i + 1, IF FGt(d[i].value, d[best].value) THEN i ELSE best)

\* the last key of the greatest value
MaxKeyLast(d) ==
    d[CHOOSE i \in 1..Len(d) :
        /\ \A j \in 1..Len(d) : ~FGt(d[j].value, d[i].value)
        /\ \A j \in (i + 1)..Len(d) : FLt(d[j].value, d[i].value)].name

MaxKey(d) == d[MaxFrom(d, 2, 1)].name

\* recommendations['by_flakiness_type'][flaky_type], the rationale left out
TypeRecommendation(flaky_type, mitigation_effectiveness, best_strategy) ==
    [name |-> flaky_type,
     primary_recommendation |-> best_strategy,
     effectiveness_expected |-> Item(mitigation_effectiveness, best_strategy).value,
     implementation_notes |-> get_implementation_notes(flaky_type, best_strategy)]

\* recommendations['by_scenario']: the recommended strategy of each scenario
ByScenario ==
    <<[name |-> "high_resource_constraints", recommended_strategy |-> "retries"],
      [name |-> "external_dependencies", recommended_strategy |-> "mocking"],
      [name |-> "concurrent_testing", recommended_strategy |-> "isolation"],
      [name |-> "comprehensive_solution", recommended_strategy |-> "combined"]>>

ByFlakinessType(profiles) ==
    [i \in 1..Len(profiles) |->
        TypeRecommendation(profiles[i].name, profiles[i].mitigation_effectiveness,
                           MaxKey(profiles[i].mitigation_effectiveness))]

_generate_recommendations(baseline_results, mitigation_results) ==
    [by_flakiness_type |-> ByFlakinessType(get_flakiness_profiles),
     by_scenario |-> ByScenario,
     implementation_priorities |-> <<>>]

\* DataAnalyzer.analyze: the parts of the analysis that the later steps of
\* the study read or write
analyze(baseline_results, mitigation_results) ==
    [mitigation_effectiveness |->
         _analyze_mitigation_effectiveness(baseline_results, mitigation_results),
     cost_benefit_analysis |-> _analyze_cost_benefit(baseline_results, mitigation_results),
     recommendations |-> _generate_recommendations(baseline_results, mitigation_results)]

(***************************************************************************)
(* ReportGenerator.update_implementation_priorities.  sorted(...,          *)
(* reverse=True) of Python is stable: items of equal key keep their order. *)
(***************************************************************************)
\* x put into the list sorted by descending roi, before the items of a
\* roi not greater than its own
InsertBeforeEqual(sorted, x) ==
    SelectSeq(sorted, LAMBDA y : FGt(y.roi, x.roi)) \o <<x>>
        \o SelectSeq(sorted, LAMBDA y : ~FGt(y.roi, x.roi))

\* x put into the list sorted by descending roi, behind the items of a roi
\* not less than its own
InsertByRoi(sorted, x) ==
    SelectSeq(sorted, LAMBDA y : ~FLt(y.roi, x.roi)) \o <<x>>
        \o SelectSeq(sorted, LAMBDA y : FLt(y.roi, x.roi))

\* sorted by descending roi, the items of equal roi in reverse order
RECURSIVE SortedByRoiUnstable(_)
SortedByRoiUnstable(items) ==
    IF items = <<>> THEN <<>>
    ELSE InsertBeforeEqual(SortedByRoiUnstable(SubSeq(items, 1, Len(items) - 1)),
                           items[Len(items)])

\* sorted(cost_benefit.items(), key=lambda x: x[1]['roi'], reverse=True)
RECURSIVE SortedByRoi(_)
SortedByRoi(items) ==
    IF items = <<>> THEN <<>>
    ELSE InsertByRoi(SortedByRoi(SubSeq(items, 1, Len(items) - 1)), items[Len(items)])

Priorities(sorted_strategies) ==
    [i \in 1..Len(sorted_strategies) |->
        [priority |-> i,
         strategy |-> sorted_strategies[i].name,
         roi |-> sorted_strategies[i].roi,
         justification |-> sorted_strategies[i].recommendation]]

update_implementation_priorities(analysis_results) ==
    IF analysis_results.cost_benefit_analysis = <<>> THEN analysis_results
    ELSE [analysis_results EXCEPT !.recommendations.implementation_priorities =
              Priorities(SortedByRoi(analysis_results.cost_benefit_analysis))]

(***************************************************************************)
(* The analysis of run_study: analyze, then the update of the cost-benefit *)
(* analysis, then the priorities.  call holds baseline_results and         *)
(* mitigation_results, result holds analysis_results.                      *)
(***************************************************************************)
MaxStrategies == 2

\* the names of the strategies in the order of the runner, and a name that
\* the cost tables do not have
StrategyOrder == <<"retries", "mocking", "isolation", "combined", "custom_strategy">>

\* avg_pass_rate and avg_execution_time of a strategy: better and slower
\* than the baselines below, equal to them, and perfect and faster
StrategyStats ==
    {[avg_pass_rate |-> FRat(8, 10), avg_execution_time |-> FromInt(15)],
     [avg_pass_rate |-> FRat(5, 10), avg_execution_time |-> FromInt(10)],
     [avg_pass_rate |-> FromInt(1), avg_execution_time |-> FromInt(5)]}

\* mitigation_results: at most MaxStrategies strategies, in the order of
\* the runner
MitigationResults ==
    {[i \in 1..Len(ks) |-> [name |-> StrategyOrder[ks[i]],
                            avg_pass_rate |-> st[i].avg_pass_rate,
                            avg_execution_time |-> st[i].avg_execution_time]] :
        <<ks, st>> \in UNION {{k \in [1..n -> 1..Len(StrategyOrder)] :
                                  \A i, j \in 1..n : i < j => k[i] < k[j]}
                              \X [1..n -> StrategyStats] : n \in 0..MaxStrategies}}

\* baseline_results with the entry 'all_flaky' alone: its average pass rate
\* and its trials, those of times with a pass rate and then those of
\* invalid_times with the pass rate None of a run that left no usable report
AllFlakyTrials(avg_pass_rate, times, invalid_times) ==
    <<[name |-> "all_flaky", avg_pass_rate |-> avg_pass_rate,
       results |->
           [i \in 1..Len(times) |->
               [execution_time |-> FromInt(times[i]), pass_rate |-> avg_pass_rate]]
           \o [i \in 1..Len(invalid_times) |->
                  [execution_time |-> FromInt(invalid_times[i]), pass_rate |-> None]]]>>

AllFlaky(avg_pass_rate, times) == AllFlakyTrials(avg_pass_rate, times, <<>>)

\* baseline_results: no baseline at all, a usual one with a trial that left
\* no usable report, one without trials and one whose trials all failed at
\* once, and one of a malformed report with a negative number of passed
\* tests
BaselineResults ==
    {<<>>,
     AllFlakyTrials(FRat(5, 10), <<5>>, <<15>>),
     AllFlaky(FRat(5, 10), <<>>),
     AllFlaky(FZero, <<0>>),
     AllFlaky(FRat(-2, 10), <<10>>)}

InitAnalysis ==
    /\ pc = "analysis"
    /\ config = None
    /\ config_results = <<>>
    /\ baseline_data = <<>>
    /\ strategy_results = <<>>
    /\ mitigation_data = <<>>
    /\ \E baseline_results \in BaselineResults, mitigation_results \in MitigationResults :
          call = [baseline_results |-> baseline_results,
                  mitigation_results |-> mitigation_results]
    /\ result = None
    /\ phase = "none"
    /\ conftest = FALSE
    /\ shared_counter = 0
    /\ threads = <<>>

\* run_study: self.analysis_results = self.analyzer.analyze(...)
Analyze ==
    /\ pc = "analysis"
    /\ result' = analyze(call.baseline_results, call.mitigation_results)
    /\ pc' = "analyzed"
    /\ UNCHANGED <<phase, conftest, shared_counter, threads>>
    /\ UNCHANGED <<config, config_results, baseline_data, strategy_results, mitigation_data,
                   call>>

\* run_study: the cost-benefit analysis updated with the effectiveness
UpdateCostBenefit ==
    /\ pc = "analyzed"
    /\ result' = [result EXCEPT !.cost_benefit_analysis =
                     update_cost_benefit_with_effectiveness(result.cost_benefit_analysis,
                                                            result.mitigation_effectiveness)]
    /\ pc' = "updated"
    /\ UNCHANGED <<phase, conftest, shared_counter, threads>>
    /\ UNCHANGED <<config, config_results, baseline_data, strategy_results, mitigation_data,
                   call>>

\* run_study: self.report_generator.update_implementation_priorities(...)
UpdateImplementationPriorities ==
    /\ pc = "updated"
    /\ result' = update_implementation_priorities(result)
    /\ pc' = "ranked"
    /\ UNCHANGED <<phase, conftest, shared_counter, threads>>
    /\ UNCHANGED <<config, config_results, baseline_data, strategy_results, mitigation_data,
                   call>>

NextAnalysis ==
    \/ Analyze
    \/ UpdateCostBenefit
    \/ UpdateImplementationPriorities

SpecAnalysis == InitAnalysis /\ [][NextAnalysis]_vars

(***************************************************************************)
(* ComprehensiveStudy.run_study and main: the order of the calls, the      *)
(* loops of the two runners and the way an exception leaves them.  The     *)
(* trials and the records are those of Spec; here a trial is its run       *)
(* number and seed and a record is its name and its number of trials,      *)
(* since no branch of run_study looks at more.                             *)
(***************************************************************************)
\* the names of BASELINE_CONFIGURATIONS, in order
BASELINE_CONFIGURATIONS ==
    <<"stable_only", "randomness", "timeout", "order", "external", "race", "all_flaky">>

\* the strategies dict of MitigationRunner.run_experiments, in insertion order
RunnerStrategies ==
    <<[name |-> "retries", func |-> "_run_retry_strategy"],
      [name |-> "mocking", func |-> "_run_mocking_strategy"],
      [name |-> "isolation", func |-> "_run_isolation_strategy"],
      [name |-> "combined", func |-> "_run_combined_strategy"]>>

\* the strategy functions that write tests/conftest.py inside try/finally
WritesConftest(func) == func \in {"_run_mocking_strategy", "_run_combined_strategy"}

\* the positions of run_study with the ranking placed before the analysis
RunStudyStatementsRankFirst ==
    <<"baseline", "mitigation", "updated", "ranked", "analysis", "analyzed",
      "charted", "reported">>

\* the positions of run_study in the order of its statements: inside the
\* baseline runner, inside the mitigation runner, before and after analyze,
\* after the update, the ranking, the charts and the report
RunStudyStatements ==
    <<"baseline", "mitigation", "analysis", "analyzed", "updated", "ranked",
      "charted", "reported">>

\* the position after the statement that ends at position p
Following(p) ==
    RunStudyStatements[(CHOOSE i \in 1..Len(RunStudyStatements) :
                            RunStudyStatements[i] = p) + 1]

\* what the exceptions that run_study catches are
Raisable == {"Exception", "KeyboardInterrupt"}

\* run_study returns True whatever happened
run_study_true(raised) == TRUE

\* return True at the end of the try block; return False in both handlers
run_study(raised) == raised = None

\* main: return 0 if success else 1
main(success) == IF success THEN 0 ELSE 1

\* the file is left where it is
ConftestLeft(exists) == exists

\* finally: if conftest_path.exists(): conftest_path.unlink()
ConftestUnlinked(exists) == IF exists THEN FALSE ELSE exists

InitStudy ==
    /\ pc = "baseline"
    /\ \E runs \in 0..MaxRuns, skip_baseline \in BOOLEAN, skip_mitigation \in BOOLEAN :
          config = [baseline_runs |-> runs, mitigation_runs |-> runs, seeds |-> Seeds,
                    skip_baseline |-> skip_baseline, skip_mitigation |-> skip_mitigation]
    /\ config_results = <<>>
    /\ baseline_data = <<>>
    /\ strategy_results = <<>>
    /\ mitigation_data = <<>>
    /\ call = None
    /\ result = None
    /\ phase = "none"
    /\ conftest = FALSE
    /\ shared_counter = 0
    /\ threads = <<>>

\* an exception reaches one of the two handlers of run_study, which returns
Caught(e) ==
    /\ pc' = "returned"
    /\ result' = [success |-> run_study(Some(e)), raised |-> Some(e)]

\* BaselineRunner.run_experiments with skip_baseline: returns {}
StudyBaselineSkip ==
    /\ pc = "baseline"
    /\ config.skip_baseline
    /\ pc' = Following(pc)
    /\ phase' = "collect_baseline"
    /\ UNCHANGED <<config, config_results, baseline_data, strategy_results, mitigation_data,
                   call, result, conftest, shared_counter, threads>>

\* one turn of the loops over the seeds and the runs of one configuration
StudyBaselineRun ==
    /\ pc = "baseline"
    /\ ~config.skip_baseline
    /\ Len(baseline_data) < Len(BASELINE_CONFIGURATIONS)
    /\ Len(config_results) < Len(config.seeds) * config.baseline_runs
    /\ config_results' =
           Append(config_results,
                  [run_number |-> (Len(config_results) % config.baseline_runs) + 1,
                   seed |-> config.seeds[(Len(config_results) \div config.baseline_runs) + 1]])
    /\ phase' = "collect_baseline"
    /\ UNCHANGED <<pc, config, baseline_data, strategy_results, mitigation_data,
                   call, result, conftest, shared_counter, threads>>

\* the statistics of one configuration, stored under its name
StudyBaselineAggregate ==
    /\ pc = "baseline"
    /\ ~config.skip_baseline
    /\ Len(baseline_data) < Len(BASELINE_CONFIGURATIONS)
    /\ Len(config_results) = Len(config.seeds) * config.baseline_runs
    /\ baseline_data' =
           Append(baseline_data,
                  [name |-> BASELINE_CONFIGURATIONS[Len(baseline_data) + 1],
                   total_runs |-> Len(config_results)])
    /\ config_results' = <<>>
    /\ phase' = "aggregate"
    /\ UNCHANGED <<pc, config, strategy_results, mitigation_data,
                   call, result, conftest, shared_counter, threads>>

\* return baseline_data, after the last configuration
StudyBaselineReturn ==
    /\ pc = "baseline"
    /\ ~config.skip_baseline
    /\ Len(baseline_data) = Len(BASELINE_CONFIGURATIONS)
    /\ pc' = Following(pc)
    /\ UNCHANGED <<config, config_results, baseline_data, strategy_results, mitigation_data,
                   call, result, phase, conftest, shared_counter, threads>>

\* MitigationRunner.run_experiments returns {}: skip_mitigation, or
\* check_mitigation_dependencies() found a dependency missing
StudyMitigationSkip ==
    /\ pc = "mitigation"
    /\ call = None
    /\ strategy_results = <<>>
    /\ mitigation_data = <<>>
    /\ \E dependencies \in BOOLEAN : config.skip_mitigation \/ ~dependencies
    /\ pc' = Following(pc)
    /\ phase' = "collect_mitigation"
    /\ UNCHANGED <<config, config_results, baseline_data, strategy_results, mitigation_data,
                   call, result, conftest, shared_counter, threads>>

\* result = strategy_func(run): the call
StrategyCall ==
    /\ pc = "mitigation"
    /\ ~config.skip_mitigation
    /\ call = None
    /\ Len(mitigation_data) < Len(RunnerStrategies)
    /\ Len(strategy_results) < config.mitigation_runs
    /\ call' = [fn |-> RunnerStrategies[Len(mitigation_data) + 1].func,
                run_number |-> Len(strategy_results) + 1,
                at |-> "try", raised |-> None]
    /\ phase' = "collect_mitigation"
    /\ UNCHANGED <<pc, config, config_results, baseline_data, strategy_results,
                   mitigation_data, result, conftest, shared_counter, threads>>

\* _run_retry_strategy and _run_isolation_strategy: the subprocess and the
\* parsed result, appended by the caller; or an exception, which leaves
\* run_experiments and run_study
StrategyRun ==
    /\ pc = "mitigation"
    /\ call # None
    /\ ~WritesConftest(call.fn)
    /\ call.at = "try"
    /\ \/ /\ strategy_results' = Append(strategy_results, [run_number |-> call.run_number])
          /\ call' = None
          /\ UNCHANGED <<pc, result>>
       \/ \E e \in Raisable :
             /\ Caught(e)
             /\ call' = [call EXCEPT !.at = "raised", !.raised = Some(e)]
             /\ UNCHANGED strategy_results
    /\ UNCHANGED <<config, config_results, baseline_data, mitigation_data,
                   phase, conftest, shared_counter, threads>>

\* _run_mocking_strategy and _run_combined_strategy: with open(conftest_path,
\* 'w') as f: f.write(...), which creates the file or fails to
WriteConftest ==
    /\ pc = "mitigation"
    /\ call # None
    /\ WritesConftest(call.fn)
    /\ call.at = "try"
    /\ \/ /\ conftest' = TRUE
          /\ call' = [call EXCEPT !.at = "written"]
       \/ \E e \in Raisable :
             /\ call' = [call EXCEPT !.at = "finally", !.raised = Some(e)]
             /\ UNCHANGED conftest
    /\ UNCHANGED <<pc, config, config_results, baseline_data, strategy_results,
                   mitigation_data, result, phase, shared_counter, threads>>

\* ... subprocess.run and parse_test_result, whose return or exception waits
\* for the finally clause
RunWithConftest ==
    /\ pc = "mitigation"
    /\ call # None
    /\ WritesConftest(call.fn)
    /\ call.at = "written"
    /\ \E raised \in {None} \cup {Some(e) : e \in Raisable} :
          call' = [call EXCEPT !.at = "finally", !.raised = raised]
    /\ UNCHANGED <<pc, config, config_results, baseline_data, strategy_results,
                   mitigation_data, result, phase, conftest, shared_counter, threads>>

\* ... finally: the file is unlinked if it exists; then the result is
\* returned and appended, or the exception leaves run_experiments and run_study
Finally ==
    /\ pc = "mitigation"
    /\ call # None
    /\ WritesConftest(call.fn)
    /\ call.at = "finally"
    /\ conftest' = ConftestUnlinked(conftest)
    /\ IF call.raised = None
       THEN /\ strategy_results' = Append(strategy_results, [run_number |-> call.run_number])
            /\ call' = None
            /\ UNCHANGED <<pc, result>>
       ELSE /\ Caught(call.raised.some)
            /\ call' = [call EXCEPT !.at = "raised"]
            /\ UNCHANGED strategy_results
    /\ UNCHANGED <<config, config_results, baseline_data, mitigation_data,
                   phase, shared_counter, threads>>

\* the statistics of one strategy, stored under its name
StudyMitigationAggregate ==
    /\ pc = "mitigation"
    /\ ~config.skip_mitigation
    /\ call = None
    /\ Len(mitigation_data) < Len(RunnerStrategies)
    /\ Len(strategy_results) = config.mitigation_runs
    /\ mitigation_data' =
           Append(mitigation_data,
                  [name |-> RunnerStrategies[Len(mitigation_data) + 1].name,
                   total_runs |-> Len(strategy_results)])
    /\ strategy_results' = <<>>
    /\ phase' = "aggregate"
    /\ UNCHANGED <<pc, config, config_results, baseline_data,
                   call, result, conftest, shared_counter, threads>>

\* return mitigation_data, after the last strategy
StudyMitigationReturn ==
    /\ pc = "mitigation"
    /\ ~config.skip_mitigation
    /\ Len(mitigation_data) = Len(RunnerStrategies)
    /\ pc' = Following(pc)
    /\ UNCHANGED <<config, config_results, baseline_data, strategy_results, mitigation_data,
                   call, result, phase, conftest, shared_counter, threads>>

\* self.analysis_results = self.analyzer.analyze(...)
StudyAnalyze ==
    /\ pc = "analysis"
    /\ pc' = Following(pc)
    /\ phase' = "classify_score"
    /\ UNCHANGED <<config, config_results, baseline_data, strategy_results, mitigation_data,
                   call, result, conftest, shared_counter, threads>>

\* the cost-benefit analysis updated with the effectiveness
StudyUpdateCostBenefit ==
    /\ pc = "analyzed"
    /\ pc' = Following(pc)
    /\ phase' = "classify_score"
    /\ UNCHANGED <<config, config_results, baseline_data, strategy_results, mitigation_data,
                   call, result, conftest, shared_counter, threads>>

\* self.report_generator.update_implementation_priorities(...)
StudyUpdatePriorities ==
    /\ pc = "updated"
    /\ pc' = Following(pc)
    /\ phase' = "rank"
    /\ UNCHANGED <<config, config_results, baseline_data, strategy_results, mitigation_data,
                   call, result, conftest, shared_counter, threads>>

\* Phase 4: self.chart_generator.create_all_charts(...)
CreateAllCharts ==
    /\ pc = "ranked"
    /\ pc' = Following(pc)
    /\ phase' = "report"
    /\ UNCHANGED <<config, config_results, baseline_data, strategy_results, mitigation_data,
                   call, result, conftest, shared_counter, threads>>

\* ... self.report_generator.generate_report(...)
GenerateReport ==
    /\ pc = "charted"
    /\ pc' = Following(pc)
    /\ phase' = "report"
    /\ UNCHANGED <<config, config_results, baseline_data, strategy_results, mitigation_data,
                   call, result, conftest, shared_counter, threads>>

\* return True
ReturnTrue ==
    /\ pc = "reported"
    /\ pc' = "returned"
    /\ result' = [success |-> run_study(None), raised |-> None]
    /\ UNCHANGED <<config, config_results, baseline_data, strategy_results, mitigation_data,
                   call, phase, conftest, shared_counter, threads>>

\* an exception or an interrupt anywhere in the try block outside the
\* try/finally of a strategy function: except KeyboardInterrupt, except Exception
Raise ==
    /\ pc \in {RunStudyStatements[i] : i \in 1..Len(RunStudyStatements)}
    /\ call = None
    /\ \E e \in Raisable : Caught(e)
    /\ UNCHANGED <<config, config_results, baseline_data, strategy_results, mitigation_data,
                   call, phase, conftest, shared_counter, threads>>

\* main: success = study.run_study(); return 0 if success else 1
Main ==
    /\ pc = "returned"
    /\ pc' = "exited"
    /\ result' = [success |-> result.success, raised |-> result.raised,
                  exit_code |-> main(result.success)]
    /\ UNCHANGED <<config, config_results, baseline_data, strategy_results, mitigation_data,
                   call, phase, conftest, shared_counter, threads>>

NextStudy ==
    \/ StudyBaselineSkip
    \/ StudyBaselineRun
    \/ StudyBaselineAggregate
    \/ StudyBaselineReturn
    \/ StudyMitigationSkip
    \/ StrategyCall
    \/ StrategyRun
    \/ WriteConftest
    \/ RunWithConftest
    \/ Finally
    \/ StudyMitigationAggregate
    \/ StudyMitigationReturn
    \/ StudyAnalyze
    \/ StudyUpdateCostBenefit
    \/ StudyUpdatePriorities
    \/ CreateAllCharts
    \/ GenerateReport
    \/ ReturnTrue
    \/ Raise
    \/ Main

SpecStudy == InitStudy /\ [][NextStudy]_vars

(***************************************************************************)
(* run_comprehensive_study.py, the script in one piece.  Its analysis      *)
(* methods are copies of those of DataAnalyzer, except that they read      *)
(* self.analysis_results, which analyze_results assigns only after all of  *)
(* them have returned.                                                     *)
(***************************************************************************)
\* self.analysis_results = {} of __init__; a missing key reads as {}
NoAnalysis == [mitigation_effectiveness |-> <<>>, cost_benefit_analysis |-> <<>>]

\* the record of one strategy from
\* self.analysis_results.get('mitigation_effectiveness', {}).get(strategy_name, {})
ScriptCostBenefitOf(strategy_name, effectiveness) ==
    IF strategy_name \in Keys(effectiveness)
    THEN CostBenefitOf(strategy_name,
                       CostGet(IMPLEMENTATION_COSTS, strategy_name, 5),
                       CostGet(MAINTENANCE_COSTS, strategy_name, 5),
                       Item(effectiveness, strategy_name).effectiveness_score,
                       Item(effectiveness, strategy_name).pass_rate_improvement.relative_percent,
                       Item(effectiveness, strategy_name).performance_impact.time_overhead_percent)
    ELSE CostBenefitOf(strategy_name,
                       CostGet(IMPLEMENTATION_COSTS, strategy_name, 5),
                       CostGet(MAINTENANCE_COSTS, strategy_name, 5),
                       FZero, FZero, FZero)

\* ComprehensiveStudy._analyze_cost_benefit of the script
ScriptAnalyzeCostBenefit(analysis_results, mitigation_results) ==
    [i \in 1..Len(mitigation_results) |->
        ScriptCostBenefitOf(mitigation_results[i].name,
                            analysis_results.mitigation_effectiveness)]

\* ComprehensiveStudy._generate_recommendations of the script: the
\* implementation priorities, if self.analysis_results has a cost-benefit
\* analysis
ScriptPriorities(analysis_results) ==
    IF analysis_results.cost_benefit_analysis # <<>>
    THEN Priorities(SortedByRoi(analysis_results.cost_benefit_analysis))
    ELSE <<>>

\* ComprehensiveStudy.analyze_results of the script, self.analysis_results
\* being what it is while the dict is built
analyze_results(analysis_results, baseline_results, mitigation_results) ==
    [mitigation_effectiveness |->
         _analyze_mitigation_effectiveness(baseline_results, mitigation_results),
     cost_benefit_analysis |-> ScriptAnalyzeCostBenefit(analysis_results, mitigation_results),
     recommendations |->
         [by_flakiness_type |-> ByFlakinessType(get_flakiness_profiles),
          by_scenario |-> ByScenario,
          implementation_priorities |-> ScriptPriorities(analysis_results)]]

InitScript ==
    /\ pc = "analysis"
    /\ config = None
    /\ config_results = <<>>
    /\ baseline_data = <<>>
    /\ strategy_results = <<>>
    /\ mitigation_data = <<>>
    /\ \E baseline_results \in BaselineResults, mitigation_results \in MitigationResults :
          call = [baseline_results |-> baseline_results,
                  mitigation_results |-> mitigation_results]
    /\ result = NoAnalysis
    /\ phase = "none"
    /\ conftest = FALSE
    /\ shared_counter = 0
    /\ threads = <<>>

\* main: study.analyze_results()
AnalyzeResults ==
    /\ pc = "analysis"
    /\ result' = analyze_results(result, call.baseline_results, call.mitigation_results)
    /\ pc' = "analyzed"
    /\ UNCHANGED <<config, config_results, baseline_data, strategy_results, mitigation_data,
                   call, phase, conftest, shared_counter, threads>>

\* main: study.generate_report(), which reads self.analysis_results
ScriptGenerateReport ==
    /\ pc = "analyzed"
    /\ pc' = "reported"
    /\ UNCHANGED <<config, config_results, baseline_data, strategy_results, mitigation_data,
                   call, result, phase, conftest, shared_counter, threads>>

NextScript ==
    \/ AnalyzeResults
    \/ ScriptGenerateReport

SpecScript == InitScript /\ [][NextScript]_vars

(***************************************************************************)
(* tests/test_flaky_race.py, test_race_counter_increment: two threads run  *)
(* increment() on the dict of the fixture.  A thread is switched out only  *)
(* between two statements that touch the dict (the interpreter lock makes  *)
(* the read and the store atomic, and time.sleep gives the lock away).     *)
(***************************************************************************)
\* for _ in range(10)
Increments == 10

\* t1 and t2
Threads == {1, 2}

\* the stored value is the one that was read
NotIncremented(current) == current

\* current + 1
Incremented(current) == current + 1

\* the fixture shared_counter and the two threads created, none started
InitRace ==
    /\ pc = "start"
    /\ config = None
    /\ config_results = <<>>
    /\ baseline_data = <<>>
    /\ strategy_results = <<>>
    /\ mitigation_data = <<>>
    /\ call = None
    /\ result = None
    /\ phase = "none"
    /\ conftest = FALSE
    /\ shared_counter = 0
    /\ threads = [t \in Threads |-> [at |-> "created", turn |-> 0, current |-> 0]]

\* t1.start(), then t2.start()
Start ==
    /\ pc = "start"
    /\ \E t \in Threads :
          /\ threads[t].at = "created"
          /\ \A u \in Threads : u < t => threads[u].at # "created"
          /\ threads' = [threads EXCEPT ![t].at = IF Increments > 0 THEN "read" ELSE "done"]
          /\ pc' = IF \A u \in Threads : u <= t THEN "join" ELSE "start"
    /\ UNCHANGED <<config, config_results, baseline_data, strategy_results, mitigation_data,
                   call, result, phase, conftest, shared_counter>>

\* current = shared_counter["value"], then the thread sleeps
ReadCounter ==
    /\ \E t \in Threads :
          /\ threads[t].at = "read"
          /\ threads' = [threads EXCEPT ![t].current = shared_counter, ![t].at = "write"]
    /\ UNCHANGED <<pc, config, config_results, baseline_data, strategy_results,
                   mitigation_data, call, result, phase, conftest, shared_counter>>

\* shared_counter["value"] = current + 1, and the next turn of the loop
WriteCounter ==
    /\ \E t \in Threads :
          /\ threads[t].at = "write"
          /\ shared_counter' = Incremented(threads[t].current)
          /\ threads' = [threads EXCEPT
                            ![t].turn = threads[t].turn + 1,
                            ![t].at = IF threads[t].turn + 1 < Increments THEN "read"
                                      ELSE "done"]
    /\ UNCHANGED <<pc, config, config_results, baseline_data, strategy_results,
                   mitigation_data, call, result, phase, conftest>>

\* t1.join(); t2.join(); assert shared_counter["value"] == 20
JoinAndAssert ==
    /\ pc = "join"
    /\ \A t \in Threads : threads[t].at = "done"
    /\ result' = [passed |-> shared_counter = 20]
    /\ pc' = "asserted"
    /\ UNCHANGED <<config, config_results, baseline_data, strategy_results, mitigation_data,
                   call, phase, conftest, shared_counter, threads>>

NextRace ==
    \/ Start
    \/ ReadCounter
    \/ WriteCounter
    \/ JoinAndAssert

SpecRace == InitRace /\ [][NextRace]_vars

(***************************************************************************)
(* The claims about the aggregation of the trials, under Spec.             *)
(***************************************************************************)
\* the trials of the runner that runs, and those with a defined pass rate
Collected == config_results \o strategy_results
Defined == SelectSeq(Collected, LAMBDA r : r.pass_rate # None)
DefinedRates == [i \in 1..Len(Defined) |-> Defined[i].pass_rate]

FLe(x, y) == FCmp(x, y) <= 0

\* C1: calculate_flakiness_index returns 0.0 when no trial has a defined
\* pass rate; otherwise, with m the mean and s the population standard
\* deviation of the defined pass rates (as numpy computes them), 1.0 when
\* m = 0 and s > 0, 0.0 when m = 0 and s = 0, and s / m in every other case.
C1_FlakinessIndexCases ==
    \A i \in 1..Len(baseline_data) :
        LET index == baseline_data[i].flakiness_index
            m == NpMean(DefinedRates)
            s == NpStd(DefinedRates)
        IN  /\ DefinedRates = <<>> => index = FZero
            /\ DefinedRates # <<>> =>
                  /\ FIsZero(m) /\ FSign(s) > 0 => index = FromInt(1)
                  /\ FIsZero(m) /\ FIsZero(s) => index = FZero
                  /\ ~FIsZero(m) => index = FDiv(s, m)

\* a collection of mean 0 that varies has got the index 1.0
C1_Witness ==
    /\ baseline_data # <<>>
    /\ Len(DefinedRates) >= 2
    /\ FIsZero(baseline_data[1].avg_pass_rate)
    /\ ~FIsZero(baseline_data[1].std_pass_rate)
    /\ baseline_data[1].flakiness_index = FromInt(1)

\* every defined pass rate of the collection is in [0, 1]
RatesInRange == \A i \in 1..Len(DefinedRates) :
                    FLe(FZero, DefinedRates[i]) /\ FLe(DefinedRates[i], FromInt(1))

RatesAllEqual == \A i, j \in 1..Len(DefinedRates) : DefinedRates[i] = DefinedRates[j]

\* C2: for a collection with at least one valid trial, pass rates in [0, 1],
\* the flakiness index of its record is >= 0, and 0 exactly when all the
\* valid pass rates are equal.
C2_IndexZeroIffAllEqual ==
    \A i \in 1..Len(baseline_data) :
        (DefinedRates # <<>> /\ RatesInRange) =>
            /\ FLe(FZero, baseline_data[i].flakiness_index)
            /\ FIsZero(baseline_data[i].flakiness_index) <=> RatesAllEqual

\* C3: a collection without any defined pass rate, the empty one included,
\* is aggregated (the statistics are enabled once the runs are done) to
\* avg_pass_rate = std_pass_rate = flakiness_index = 0, and to
\* avg_execution_time = 0 for a strategy.
C3_NoValidTrialsAllZero ==
    DefinedRates = <<>> =>
        /\ (pc = "baseline" /\ ~config.skip_baseline
              /\ Len(config_results) = Len(config.seeds) * config.baseline_runs)
               => ENABLED BaselineAggregate
        /\ (pc = "mitigation" /\ ~config.skip_mitigation
              /\ Len(strategy_results) = config.mitigation_runs)
               => ENABLED MitigationAggregate
        /\ \A i \in 1..Len(baseline_data) :
              /\ baseline_data[i].avg_pass_rate = FZero
              /\ baseline_data[i].std_pass_rate = FZero
              /\ baseline_data[i].flakiness_index = FZero
        /\ \A i \in 1..Len(mitigation_data) :
              /\ mitigation_data[i].avg_pass_rate = FZero
              /\ mitigation_data[i].std_pass_rate = FZero
              /\ mitigation_data[i].avg_execution_time = FZero

\* trials were collected, none with a defined pass rate, and aggregated
C3_Witness ==
    /\ Len(config_results) >= 2
    /\ DefinedRates = <<>>
    /\ baseline_data # <<>>
    /\ baseline_data[1].flakiness_index = FZero

\* C4: in every record valid_runs is the number of collected trials with a
\* defined pass rate and total_runs the number of collected trials, so
\* valid_runs <= total_runs; the mean and the standard deviation of the
\* pass rates are those of the defined pass rates alone.
C4_ValidRunsAndTotalRuns ==
    \A rec \in {baseline_data[i] : i \in 1..Len(baseline_data)}
               \cup {mitigation_data[i] : i \in 1..Len(mitigation_data)} :
        /\ rec.total_runs = Len(Collected)
        /\ rec.valid_runs = Cardinality({i \in 1..Len(Collected) :
                                            Collected[i].pass_rate # None})
        /\ rec.valid_runs <= rec.total_runs
        /\ DefinedRates # <<>> =>
              /\ rec.avg_pass_rate = NpMean(DefinedRates)
              /\ rec.std_pass_rate = NpStd(DefinedRates)

\* a record of a collection with both valid and invalid trials
C4_Witness ==
    /\ mitigation_data # <<>>
    /\ mitigation_data[1].valid_runs >= 1
    /\ mitigation_data[1].valid_runs < mitigation_data[1].total_runs

(***************************************************************************)
(* The claims about parse_test_result, under SpecParse.                    *)
(***************************************************************************)
\* C5: a result of parse_test_result with tests_total = 0 has an undefined
\* pass rate, never 0, whatever the state of the report file.
C5_ZeroTotalUndefinedRate ==
    pc = "returned" => (result.tests_total = JInt(0) => result.pass_rate = None)

\* a report that parsed, its summary with a total of 0
C5_Witness ==
    /\ pc = "returned"
    /\ call.output_file.exists
    /\ ~ParseRaises(call.output_file)
    /\ result.tests_total = JInt(0)
    /\ result.pass_rate = None

\* C6: every result of parse_test_result has tests_passed <= tests_total
\* and a pass rate that is undefined or within [0, 1], whatever the summary
\* holds.
C6_ResultWellFormed ==
    pc = "returned" =>
        /\ result.tests_passed.type = "int"
        /\ result.tests_total.type = "int"
        /\ result.tests_passed.val <= result.tests_total.val
        /\ result.pass_rate # None =>
              FLe(FZero, result.pass_rate) /\ FLe(result.pass_rate, FromInt(1))

\* no usable signal in the report: it is missing, it does not load, or a
\* value that is needed is of the wrong type
Unusable(f) ==
    \/ ~f.exists
    \/ ~f.loads
    \/ f.data.type # "dict"
    \/ "summary" \in f.data.keys /\ f.data.at["summary"].type # "dict"
    \/ /\ "summary" \in f.data.keys
       /\ "total" \in f.data.at["summary"].keys
       /\ f.data.at["summary"].at["total"].type # "int"
    \/ /\ "summary" \in f.data.keys
       /\ "passed" \in f.data.at["summary"].keys
       /\ f.data.at["summary"].at["passed"].type # "int"
       /\ ("total" \in f.data.at["summary"].keys
              => f.data.at["summary"].at["total"].val > 0)

\* C7: parse_test_result returns for every call, with the run_number, the
\* execution_time and the return_code it was given; for a report that is
\* missing or fails to load or to parse, the pass rate is undefined and
\* tests_passed = tests_total = 0.
C7_FailureGivesDefault ==
    /\ pc = "call" => ENABLED ParseTestResult
    /\ pc = "returned" =>
          /\ result.run_number = call.run_number
          /\ result.execution_time = call.execution_time
          /\ result.return_code = call.return_code
          /\ Unusable(call.output_file) =>
                /\ result.pass_rate = None
                /\ result.tests_passed = JInt(0)
                /\ result.tests_total = JInt(0)

\* a report that is there and loads, but does not parse
C7_Witness ==
    /\ pc = "returned"
    /\ call.output_file.exists
    /\ call.output_file.loads
    /\ Unusable(call.output_file)
    /\ call.return_code = 1
    /\ result.return_code = 1
    /\ result.tests_total = JInt(0)

(***************************************************************************)
(* The claims about FlakynessClassifier, under SpecClassifier.             *)
(***************************************************************************)
\* lo <= x < hi
FIn(x, lo, hi) == FLe(lo, x) /\ FLt(x, hi)

\* C8: classify_severity is low below 0.1, moderate from 0.1 below 0.3, high
\* from 0.3 below 0.6 and severe from 0.6; classify_predictability is
\* highly_predictable below 0.1, moderately_predictable from 0.1 below 0.2,
\* low_predictability from 0.2 below 0.3 and unpredictable from 0.3.
C8_BandsByThreshold ==
    /\ (pc = "returned" /\ call.fn = "classify_severity") =>
          /\ FLt(call.x, FRat(1, 10)) => result = "low"
          /\ FIn(call.x, FRat(1, 10), FRat(3, 10)) => result = "moderate"
          /\ FIn(call.x, FRat(3, 10), FRat(6, 10)) => result = "high"
          /\ FLe(FRat(6, 10), call.x) => result = "severe"
    /\ (pc = "returned" /\ call.fn = "classify_predictability") =>
          /\ FLt(call.x, FRat(1, 10)) => result = "highly_predictable"
          /\ FIn(call.x, FRat(1, 10), FRat(2, 10)) => result = "moderately_predictable"
          /\ FIn(call.x, FRat(2, 10), FRat(3, 10)) => result = "low_predictability"
          /\ FLe(FRat(3, 10), call.x) => result = "unpredictable"

\* the boundary 0.3 is in the higher band
C8_Witness ==
    /\ pc = "returned"
    /\ call.fn = "classify_severity"
    /\ call.x = FRat(3, 10)
    /\ result = "high"

\* the place of a band in its ladder, 0 for what is no band
Rank(band) ==
    IF band \in {"low", "highly_predictable"} THEN 1
    ELSE IF band \in {"moderate", "moderately_predictable"} THEN 2
    ELSE IF band \in {"high", "low_predictability"} THEN 3
    ELSE IF band \in {"severe", "unpredictable"} THEN 4
    ELSE 0

\* C9: each classifier maps every input to one of its four bands, the band
\* of x is never above the band of y >= x, and an input below 0 is in the
\* lowest band.
C9_TotalAndMonotonic ==
    /\ (pc = "returned" /\ call.fn = "classify_severity") =>
          /\ result \in {"low", "moderate", "high", "severe"}
          /\ \A y \in ClassifierInputs :
                FLe(call.x, y) => Rank(result) <= Rank(classify_severity(y))
          /\ FLt(call.x, FZero) => result = "low"
    /\ (pc = "returned" /\ call.fn = "classify_predictability") =>
          /\ result \in {"highly_predictable", "moderately_predictable",
                         "low_predictability", "unpredictable"}
          /\ \A y \in ClassifierInputs :
                FLe(call.x, y) => Rank(result) <= Rank(classify_predictability(y))
          /\ FLt(call.x, FZero) => result = "highly_predictable"

\* an input below 0 in the lowest band
C9_Witness ==
    /\ pc = "returned"
    /\ call.fn = "classify_predictability"
    /\ FLt(call.x, FZero)
    /\ result = "highly_predictable"

InTable(flaky_type, strategy) == \E n \in Notes : n[1] = flaky_type /\ n[2] = strategy

\* C10 as it is stated: the tabulated note for a pair of the table, and for
\* every other pair the text "Apply {strategy} for {archetype}".
C10_GenericNoteAsStated ==
    (pc = "returned" /\ call.fn = "get_implementation_notes") =>
        /\ InTable(call.flaky_type, call.strategy) =>
              <<call.flaky_type, call.strategy, result>> \in Notes
        /\ ~InTable(call.flaky_type, call.strategy) =>
              result = "Apply " \o call.strategy \o " for " \o call.flaky_type

\* C10: the table has ten pairs; get_implementation_notes returns the
\* tabulated note for a pair of the table, and for every other pair the
\* text "Apply {strategy} strategy for {archetype} tests".
C10_NoteOrGenericText ==
    /\ Cardinality({<<n[1], n[2]>> : n \in Notes}) = 10
    /\ pc = "call" => ENABLED GetImplementationNotes
    /\ (pc = "returned" /\ call.fn = "get_implementation_notes") =>
          /\ InTable(call.flaky_type, call.strategy) =>
                <<call.flaky_type, call.strategy, result>> \in Notes
          /\ ~InTable(call.flaky_type, call.strategy) =>
                result = "Apply " \o call.strategy \o " strategy for "
                             \o call.flaky_type \o " tests"

\* a pair of names that are neither a type nor a strategy of the study
C10_Witness ==
    /\ pc = "returned"
    /\ call.fn = "get_implementation_notes"
    /\ call.flaky_type = "flaky"
    /\ call.strategy = "none"
    /\ result = "Apply none strategy for flaky tests"

(***************************************************************************)
(* The claims about the helpers of the analysis, under SpecHelpers.        *)
(***************************************************************************)
ScoreReturned == pc = "returned" /\ call.fn = "calculate_effectiveness_score"

\* x / 100 clamped to [0, 1]
Clamp01(x) == PyMax(PyMin(FDiv(x, FromInt(100)), FromInt(1)), FZero)

\* C13: calculate_effectiveness_score(improvement_percent, overhead_percent)
\* is max(0, 0.7 * I - 0.3 * O), I and O being improvement_percent / 100
\* and overhead_percent / 100 clamped to [0, 1], for every pair of inputs,
\* negative ones included.
C13_ScoreOfClampedInputs ==
    ScoreReturned =>
        result = PyMax(FSub(FMul(Clamp01(call.improvement_percent), FRat(7, 10)),
                            FMul(Clamp01(call.overhead_percent), FRat(3, 10))),
                       FZero)

\* C14: the effectiveness score lies in [0, 1] for every pair of inputs,
\* also for a negative overhead_percent and an improvement_percent above 100.
C14_ScoreInUnitInterval ==
    ScoreReturned => FLe(FZero, result) /\ FLe(result, FromInt(1))

RecommendationReturned == pc = "returned" /\ call.fn = "generate_strategy_recommendation"

\* the conditions of the four rules, on the arguments of the call
Rule1 == FGt(call.roi, FromInt(2)) /\ FGt(call.effectiveness, FRat(5, 10))
Rule2 == FGt(call.roi, FromInt(1)) /\ FGt(call.effectiveness, FRat(3, 10))
Rule3 == FGt(call.effectiveness, FRat(6, 10))
Rule4 == FGt(call.roi, FRat(5, 10))

\* C18: generate_strategy_recommendation gives the tier of the first rule
\* that matches, in the order roi > 2.0 and effectiveness > 0.5, roi > 1.0
\* and effectiveness > 0.3, effectiveness > 0.6, roi > 0.5, and 'Not
\* recommended' when none does; the comparisons are strict and every pair
\* gets exactly one tier.
C18_FirstMatchingRule ==
    RecommendationReturned =>
        /\ result \in {"Highly recommended - excellent ROI and effectiveness",
                       "Recommended - good balance of cost and benefit",
                       "Consider if effectiveness is priority over cost",
                       "Consider for cost-sensitive environments",
                       "Not recommended - poor cost-benefit ratio"}
        /\ result = "Highly recommended - excellent ROI and effectiveness" <=> Rule1
        /\ result = "Recommended - good balance of cost and benefit" <=> ~Rule1 /\ Rule2
        /\ result = "Consider if effectiveness is priority over cost"
              <=> ~Rule1 /\ ~Rule2 /\ Rule3
        /\ result = "Consider for cost-sensitive environments"
              <=> ~Rule1 /\ ~Rule2 /\ ~Rule3 /\ Rule4
        /\ result = "Not recommended - poor cost-benefit ratio"
              <=> ~Rule1 /\ ~Rule2 /\ ~Rule3 /\ ~Rule4

\* a return on investment of exactly 2.0 with a high effectiveness falls
\* through the first rule to the second
C18_Witness ==
    /\ RecommendationReturned
    /\ call.roi = FromInt(2)
    /\ call.effectiveness = FromInt(1)
    /\ result = "Recommended - good balance of cost and benefit"

(***************************************************************************)
(* The claims about the analysis, under SpecAnalysis.                      *)
(***************************************************************************)
Analyzed == pc \in {"analyzed", "updated", "ranked"}
Updated == pc \in {"updated", "ranked"}

\* the baseline that the strategies are scored against
BaselineRate == BaselinePassRate(AllFlakyBaseline(call.baseline_results))
BaselineTime == BaselineExecutionTime(AllFlakyBaseline(call.baseline_results))

\* the strategies scored: the items of mitigation_results and, at the same
\* index, of the effectiveness and of the cost-benefit analysis
Scored == 1..Len(result.mitigation_effectiveness)

\* C11, as stated: improvement_absolute is the difference of the average
\* pass rates and improvement_relative_percent is improvement_absolute /
\* baseline * 100 for every baseline average other than 0, and 0 for 0; a
\* baseline of 0.5 and a strategy of 0.8 give 0.3 and 60.
C11_ImprovementAsStated ==
    Analyzed =>
        \A i \in Scored :
            LET strategy == call.mitigation_results[i]
                improvement == result.mitigation_effectiveness[i].pass_rate_improvement
            IN  /\ improvement.absolute = FSub(strategy.avg_pass_rate, BaselineRate)
                /\ improvement.relative_percent =
                       IF FIsZero(BaselineRate) THEN FZero
                       ELSE FMul(FDiv(improvement.absolute, BaselineRate), FromInt(100))
                /\ (BaselineRate = FRat(5, 10) /\ strategy.avg_pass_rate = FRat(8, 10))
                      => /\ improvement.absolute = FRat(3, 10)
                         /\ improvement.relative_percent = FromInt(60)

\* C11, amended: improvement_absolute is the float64 difference of the
\* average pass rates; improvement_relative_percent is improvement_absolute
\* / baseline * 100 in float64 for a baseline average greater than 0, and 0
\* for a baseline average of 0 or below; a baseline of 0.5 and a strategy
\* of 0.8 give the float64 values next above 0.3 and next above 60.
C11_ImprovementOverPositiveBaseline ==
    Analyzed =>
        \A i \in Scored :
            LET strategy == call.mitigation_results[i]
                improvement == result.mitigation_effectiveness[i].pass_rate_improvement
            IN  /\ improvement.absolute = FSub(strategy.avg_pass_rate, BaselineRate)
                /\ improvement.relative_percent =
                       IF FGt(BaselineRate, FZero)
                       THEN FMul(FDiv(improvement.absolute, BaselineRate), FromInt(100))
                       ELSE FZero
                /\ (BaselineRate = FRat(5, 10) /\ strategy.avg_pass_rate = FRat(8, 10))
                      => /\ improvement.absolute = FNext(FRat(3, 10))
                         /\ improvement.relative_percent = FNext(FromInt(60))

\* a strategy of 0.8 scored against a baseline of 0.5
C11_Witness ==
    /\ Analyzed
    /\ BaselineRate = FRat(5, 10)
    /\ \E i \in Scored :
          /\ call.mitigation_results[i].avg_pass_rate = FRat(8, 10)
          /\ FGt(result.mitigation_effectiveness[i].pass_rate_improvement.relative_percent,
                 FromInt(60))

\* C12: time_overhead_percent is (strategy time - baseline time) / baseline
\* time * 100 for a baseline average execution time other than 0, and 0 for
\* a baseline time of 0; a baseline of 10 and a strategy of 15 give 50, and
\* a strategy faster than the baseline gives a negative overhead.
C12_TimeOverhead ==
    (Analyzed /\ BaselineTime # NaN) =>
        \A i \in Scored :
            LET strategy_time == call.mitigation_results[i].avg_execution_time
                overhead ==
                    result.mitigation_effectiveness[i].performance_impact.time_overhead_percent
            IN  /\ overhead = IF FIsZero(BaselineTime) THEN FZero
                              ELSE FMul(FDiv(FSub(strategy_time, BaselineTime), BaselineTime),
                                        FromInt(100))
                /\ (BaselineTime = FromInt(10) /\ strategy_time = FromInt(15))
                      => overhead = FromInt(50)
                /\ FLt(strategy_time, BaselineTime) => FLt(overhead, FZero)

\* a strategy of 15 scored against a baseline of 10
C12_Witness ==
    /\ Analyzed
    /\ BaselineTime = FromInt(10)
    /\ \E i \in Scored :
          /\ call.mitigation_results[i].avg_execution_time = FromInt(15)
          /\ result.mitigation_effectiveness[i].performance_impact.time_overhead_percent
                = FromInt(50)

\* C15: the cost-benefit evaluation uses the implementation and maintenance
\* costs 2/1 of retries, 6/7 of mocking, 4/3 of isolation and 8/9 of
\* combined, and for any other strategy name it does not raise (both
\* lookups yield a cost for every name of mitigation_results, before the
\* analysis as well as after it) and uses 5 and 5.
C15_CostsAndDefaults ==
    /\ \A i \in 1..Len(call.mitigation_results) :
          /\ CostGet(IMPLEMENTATION_COSTS, call.mitigation_results[i].name, 5) \in 1..10
          /\ CostGet(MAINTENANCE_COSTS, call.mitigation_results[i].name, 5) \in 1..10
    /\ Analyzed =>
          \A i \in 1..Len(result.cost_benefit_analysis) :
              LET item == result.cost_benefit_analysis[i]
                  costs == <<item.costs.implementation, item.costs.maintenance>>
              IN  /\ item.name = call.mitigation_results[i].name
                  /\ item.name = "retries" => costs = <<2, 1>>
                  /\ item.name = "mocking" => costs = <<6, 7>>
                  /\ item.name = "isolation" => costs = <<4, 3>>
                  /\ item.name = "combined" => costs = <<8, 9>>
                  /\ item.name \notin {"retries", "mocking", "isolation", "combined"}
                        => costs = <<5, 5>>

\* a strategy that the cost tables do not have, evaluated and updated
C15_Witness ==
    /\ Updated
    /\ \E i \in 1..Len(result.cost_benefit_analysis) :
          /\ result.cost_benefit_analysis[i].name = "custom_strategy"
          /\ result.cost_benefit_analysis[i].costs.implementation = 5
          /\ result.cost_benefit_analysis[i].costs.maintenance = 5

\* C16: for every strategy total_cost = implementation_cost +
\* maintenance_cost + time_overhead_percent / 10, benefit_score =
\* improvement_relative_percent * 10, and roi = (benefit_score - total_cost)
\* / total_cost for every total_cost other than 0, a negative one included,
\* roi being 0 only for total_cost = 0.
C16_RoiForEveryNonZeroCost ==
    Updated =>
        \A i \in Scored :
            LET effectiveness == result.mitigation_effectiveness[i]
                item == result.cost_benefit_analysis[i]
                total_cost == item.costs.total
                benefit == item.benefits.improvement_score
            IN  /\ total_cost =
                       FAdd(FromInt(item.costs.implementation + item.costs.maintenance),
                            FDiv(effectiveness.performance_impact.time_overhead_percent,
                                 FromInt(10)))
                /\ benefit = FMul(effectiveness.pass_rate_improvement.relative_percent,
                                  FromInt(10))
                /\ item.roi = IF FIsZero(total_cost) THEN FZero
                              ELSE FDiv(FSub(benefit, total_cost), total_cost)

\* the inputs of the evaluation of the strategy at index i: none before
\* the update, its effectiveness after it
NothingGained(i) ==
    Updated =>
        LET effectiveness == result.mitigation_effectiveness[i]
        IN  /\ FIsZero(effectiveness.pass_rate_improvement.relative_percent)
            /\ FIsZero(effectiveness.performance_impact.time_overhead_percent)

\* C17: a strategy evaluated with an improvement_relative_percent of 0 and
\* a time_overhead_percent of 0 gets benefit_score = 0, total_cost =
\* implementation_cost + maintenance_cost and roi = -1 exactly.
C17_NothingGainedRoiMinusOne ==
    Analyzed =>
        \A i \in 1..Len(result.cost_benefit_analysis) :
            LET item == result.cost_benefit_analysis[i]
            IN  NothingGained(i) =>
                    /\ item.benefits.improvement_score = FZero
                    /\ item.costs.total =
                           FromInt(item.costs.implementation + item.costs.maintenance)
                    /\ item.roi = FromInt(-1)

\* a strategy equal to its baseline in pass rate and in time, evaluated
\* with its effectiveness
C17_Witness ==
    /\ Updated
    /\ BaselineRate = FRat(5, 10)
    /\ BaselineTime = FromInt(10)
    /\ \E i \in Scored :
          /\ call.mitigation_results[i].avg_pass_rate = FRat(5, 10)
          /\ call.mitigation_results[i].avg_execution_time = FromInt(10)
          /\ NothingGained(i)
          /\ result.cost_benefit_analysis[i].roi = FromInt(-1)

\* the position of a strategy in the canonical order
CanonicalIndex(strategy) ==
    CHOOSE k \in 1..Len(StrategyOrder) : StrategyOrder[k] = strategy

\* C19: for each of the five archetypes the primary recommendation is a
\* strategy of the greatest expected effectiveness in the archetype's
\* mitigation_effectiveness, the first one in the order retries, mocking,
\* isolation, combined when several have it: mocking for randomness and
\* external, isolation for timeout, order and race; computing the
\* recommendations again gives the same choice.
C19_PrimaryStrategyFirstMaximum ==
    Analyzed =>
        /\ Len(result.recommendations.by_flakiness_type) = 5
        /\ \A i \in 1..Len(get_flakiness_profiles) :
              LET profile == get_flakiness_profiles[i]
                  expected == profile.mitigation_effectiveness
                  chosen == result.recommendations.by_flakiness_type[i]
              IN  /\ chosen.name = profile.name
                  /\ chosen.primary_recommendation \in Keys(expected)
                  /\ \A j \in 1..Len(expected) :
                        /\ ~FGt(expected[j].value, chosen.effectiveness_expected)
                        /\ expected[j].value = chosen.effectiveness_expected
                              => CanonicalIndex(chosen.primary_recommendation)
                                     <= CanonicalIndex(expected[j].name)
                  /\ chosen.effectiveness_expected
                        = Item(expected, chosen.primary_recommendation).value
                  /\ chosen.name \in {"randomness", "external"}
                        => chosen.primary_recommendation = "mocking"
                  /\ chosen.name \in {"timeout", "order", "race"}
                        => chosen.primary_recommendation = "isolation"
        /\ result.recommendations.by_flakiness_type
              = _generate_recommendations(call.baseline_results,
                                          call.mitigation_results).by_flakiness_type

\* randomness, where mocking and combined have the same greatest expected
\* effectiveness, gets mocking
C19_Witness ==
    /\ Analyzed
    /\ result.recommendations.by_flakiness_type[1].name = "randomness"
    /\ result.recommendations.by_flakiness_type[1].primary_recommendation = "mocking"
    /\ Item(get_flakiness_profiles[1].mitigation_effectiveness, "mocking").value
          = Item(get_flakiness_profiles[1].mitigation_effectiveness, "combined").value

\* the position of a strategy in the cost-benefit analysis
InsertionIndex(strategy) ==
    CHOOSE k \in 1..Len(result.cost_benefit_analysis) :
        result.cost_benefit_analysis[k].name = strategy

\* C20: the list of update_implementation_priorities holds every strategy
\* of the cost-benefit analysis exactly once, with its roi and the priority
\* numbers 1..n in the order of the list, the roi never increasing along
\* the list, and strategies of equal roi in the order they have in the
\* cost-benefit analysis.
C20_PrioritiesSortedStable ==
    pc = "ranked" =>
        LET cost_benefit == result.cost_benefit_analysis
            priorities == result.recommendations.implementation_priorities
        IN  /\ Len(priorities) = Len(cost_benefit)
            /\ \A k \in 1..Len(cost_benefit) :
                  Cardinality({j \in 1..Len(priorities) :
                                  priorities[j].strategy = cost_benefit[k].name}) = 1
            /\ \A j \in 1..Len(priorities) :
                  /\ priorities[j].priority = j
                  /\ priorities[j].roi = Item(cost_benefit, priorities[j].strategy).roi
            /\ \A j, k \in 1..Len(priorities) :
                  j < k =>
                      /\ ~FLt(priorities[j].roi, priorities[k].roi)
                      /\ priorities[j].roi = priorities[k].roi
                            => InsertionIndex(priorities[j].strategy)
                                   < InsertionIndex(priorities[k].strategy)

\* two strategies of equal roi ranked, the first of the analysis first
C20_Witness ==
    /\ pc = "ranked"
    /\ Len(result.recommendations.implementation_priorities) = 2
    /\ result.recommendations.implementation_priorities[1].roi
          = result.recommendations.implementation_priorities[2].roi
    /\ result.recommendations.implementation_priorities[1].strategy
          = result.cost_benefit_analysis[1].name
    /\ result.recommendations.implementation_priorities[2].priority = 2
(***************************************************************************)
(* The claims about run_study, main and the strategy functions, under      *)
(* SpecStudy.                                                              *)
(***************************************************************************)
\* the place of a phase in COLLECT_BASELINE, COLLECT_MITIGATION, AGGREGATE,
\* CLASSIFY/SCORE, RANK, REPORT
PhaseRank(p) ==
    CASE p = "none" -> 0
      [] p = "collect_baseline" -> 1
      [] p = "collect_mitigation" -> 2
      [] p = "aggregate" -> 3
      [] p = "classify_score" -> 4
      [] p = "rank" -> 5
      [] p = "report" -> 6

\* the place of a position in run_study and main
CallRank(p) ==
    CASE p = "baseline" -> 1
      [] p = "mitigation" -> 2
      [] p = "analysis" -> 3
      [] p = "analyzed" -> 4
      [] p = "updated" -> 5
      [] p = "ranked" -> 6
      [] p = "charted" -> 7
      [] p = "reported" -> 8
      [] p = "returned" -> 9
      [] p = "exited" -> 10

\* C21, as stated: the phases of run_study occur in the order collect
\* baseline, collect mitigation, aggregate, classify/score, rank, report, and
\* no step belongs to an earlier phase than the step before it.
C21_PhasesInStatedOrder == [][PhaseRank(phase') >= PhaseRank(phase)]_vars

\* C21, amended: the calls of run_study occur in the order baseline
\* run_experiments, mitigation run_experiments, analyze, update of the
\* cost-benefit analysis, update of the priorities, charts, report, and no
\* step goes back to an earlier call; the ranking starts only after the
\* update and the report only after the ranking; the aggregation is no call
\* of its own: every aggregation step is taken inside one of the two runners.
C21_CallsInOrder ==
    [][/\ CallRank(pc') >= CallRank(pc)
       /\ (phase' = "aggregate" /\ phase # "aggregate")
              => pc' = pc /\ pc \in {"baseline", "mitigation"}
       /\ (phase' = "classify_score" /\ phase # "classify_score") => pc = "analysis"
       /\ (phase' = "rank" /\ phase # "rank") => pc = "updated"
       /\ (phase' = "report" /\ phase # "report") => pc = "ranked"]_vars

\* the report is written after every configuration and every strategy was
\* run at least once and aggregated inside its runner
C21_Witness ==
    /\ pc = "reported"
    /\ phase = "report"
    /\ Len(baseline_data) = Len(BASELINE_CONFIGURATIONS)
    /\ Len(mitigation_data) = Len(RunnerStrategies)
    /\ \A i \in 1..Len(baseline_data) : baseline_data[i].total_runs >= 1
    /\ \A i \in 1..Len(mitigation_data) : mitigation_data[i].total_runs >= 1

\* C27: between the calls of the strategy functions, after a call that
\* raised, and during every run of the retries or of the isolation strategy,
\* the file tests/conftest.py does not exist.
C27_ConftestRemoved ==
    /\ call = None => ~conftest
    /\ (call # None /\ call.at = "raised") => ~conftest
    /\ (call # None /\ ~WritesConftest(call.fn)) => ~conftest

\* a run of the isolation strategy, after the runs of the mocking strategy
\* have written and removed the file
C27_Witness ==
    /\ call # None
    /\ call.fn = "_run_isolation_strategy"
    /\ call.at = "try"
    /\ Len(mitigation_data) = 2
    /\ mitigation_data[2].name = "mocking"
    /\ mitigation_data[2].total_runs >= 1
    /\ ~conftest

\* C28: run_study returns True only from the end of the try block, after the
\* report, and with no exception; with an exception or an interrupt it
\* returns False; after it has returned nothing but main's return follows,
\* with exit code 0 for True and 1 for False, and no phase is started.
C28_FailureReturnsFalse ==
    [][/\ (pc' = "returned" /\ result'.success)
              => pc = "reported" /\ phase = "report" /\ result'.raised = None
       /\ (pc' = "returned" /\ result'.raised # None) => ~result'.success
       /\ pc' = "returned" => phase' = phase
       /\ pc = "returned"
              => /\ pc' = "exited"
                 /\ phase' = phase
                 /\ result'.success = result.success
                 /\ result'.exit_code = (IF result.success THEN 0 ELSE 1)
                 /\ UNCHANGED <<config_results, baseline_data, strategy_results,
                                mitigation_data, call, conftest>>
       /\ pc # "exited"]_vars

\* the analysis failed: no ranking and no report, and exit code 1
C28_Witness ==
    /\ pc = "exited"
    /\ phase = "aggregate"
    /\ Len(mitigation_data) = Len(RunnerStrategies)
    /\ call = None
    /\ result.raised = Some("Exception")
    /\ ~result.success
    /\ result.exit_code = 1

(***************************************************************************)
(* The claims about the degenerate baseline, the trials behind the two     *)
(* execution times and the records that the ranking and the report read,   *)
(* under SpecAnalysis.                                                     *)
(***************************************************************************)
\* the baseline is degenerate: no entry 'all_flaky', an average pass rate
\* of 0, or an execution time that is 0 or the mean of no trial
DegenerateBaseline ==
    \/ AllFlakyBaseline(call.baseline_results) = None
    \/ FIsZero(BaselineRate)
    \/ BaselineTime = NaN
    \/ FIsZero(BaselineTime)

\* the numeric fields of an effectiveness record
NumericFields(e) ==
    {e.pass_rate_improvement.absolute, e.pass_rate_improvement.relative_percent,
     e.performance_impact.time_overhead_percent,
     e.performance_impact.absolute_time_increase,
     e.cost_effectiveness_ratio, e.effectiveness_score}

\* C22: with a degenerate baseline every effectiveness record has
\* improvement_relative_percent = 0 where the baseline average pass rate is 0
\* or missing, time_overhead_percent = 0 where the baseline execution time is
\* 0 or undefined, and no numeric field that is not a number.
C22_DegenerateBaselineDefined ==
    (Analyzed /\ DegenerateBaseline) =>
        \A i \in Scored :
            LET e == result.mitigation_effectiveness[i]
            IN  /\ FIsZero(BaselineRate) => e.pass_rate_improvement.relative_percent = FZero
                /\ (BaselineTime = NaN \/ FIsZero(BaselineTime))
                      => e.performance_impact.time_overhead_percent = FZero
                /\ NaN \notin NumericFields(e)

\* the mean of the execution times of the baseline trials with a pass rate
ValidBaselineTime ==
    IF AllFlakyBaseline(call.baseline_results) = None THEN NaN
    ELSE NpMeanOrNaN(ExecutionTimes(
             ValidResults(AllFlakyBaseline(call.baseline_results).some.results)))

\* C25: time_overhead_percent compares the strategy's average execution
\* time, taken over its valid runs, with the baseline's average execution
\* time over the valid baseline runs only: a baseline trial with an
\* undefined pass rate does not contribute.
C25_OverheadOverValidRuns ==
    Analyzed =>
        \A i \in Scored :
            result.mitigation_effectiveness[i].performance_impact.time_overhead_percent =
                TimeOverhead(call.mitigation_results[i].avg_execution_time,
                             ValidBaselineTime)

\* C24: the step that computes the ranking starts from cost-benefit records
\* that are, for every strategy, the evaluation against the strategy's own
\* effectiveness record: overhead cost time_overhead_percent / 10, total
\* cost the sum of the three costs, benefit improvement_relative_percent *
\* 10, the effectiveness score of the record, the roi of these and the
\* recommendation for them; the ranking carries these roi and
\* recommendations, and the step leaves the records as they are for the
\* report that is generated next.
C24_RecordsFromOwnEffectiveness ==
    [][(pc = "updated" /\ pc' = "ranked") =>
          /\ result'.cost_benefit_analysis = result.cost_benefit_analysis
          /\ result'.mitigation_effectiveness = result.mitigation_effectiveness
          /\ Len(result.cost_benefit_analysis) = Len(result.mitigation_effectiveness)
          /\ \A i \in Scored :
                LET e == result.mitigation_effectiveness[i]
                    c == result.cost_benefit_analysis[i]
                IN  /\ c.name = e.name
                    /\ c.costs.performance_overhead =
                           FDiv(e.performance_impact.time_overhead_percent, FromInt(10))
                    /\ c.costs.total =
                           FAdd(FromInt(c.costs.implementation + c.costs.maintenance),
                                c.costs.performance_overhead)
                    /\ c.benefits.improvement_score =
                           FMul(e.pass_rate_improvement.relative_percent, FromInt(10))
                    /\ c.benefits.effectiveness_score = e.effectiveness_score
                    /\ c.roi = IF FGt(c.costs.total, FZero)
                               THEN FDiv(FSub(c.benefits.improvement_score, c.costs.total),
                                         c.costs.total)
                               ELSE FZero
                    /\ c.recommendation =
                           generate_strategy_recommendation(c.name, c.roi,
                                                            e.effectiveness_score)
          /\ LET priorities == result'.recommendations.implementation_priorities
             IN  /\ Len(priorities) = Len(result.cost_benefit_analysis)
                 /\ \A j \in 1..Len(priorities) :
                       \E i \in Scored :
                           /\ priorities[j].strategy = result.cost_benefit_analysis[i].name
                           /\ priorities[j].roi = result.cost_benefit_analysis[i].roi
                           /\ priorities[j].justification =
                                  result.cost_benefit_analysis[i].recommendation]_vars

\* the report is about to be generated with a record that differs from the
\* placeholder in its overhead cost, its benefit, its score and its roi
C24_Witness ==
    /\ pc = "ranked"
    /\ \E i \in Scored :
          LET c == result.cost_benefit_analysis[i]
              placeholder == _analyze_cost_benefit(call.baseline_results,
                                                   call.mitigation_results)[i]
          IN  /\ c.costs.performance_overhead # placeholder.costs.performance_overhead
              /\ c.costs.total # placeholder.costs.total
              /\ c.benefits.improvement_score # placeholder.benefits.improvement_score
              /\ c.benefits.effectiveness_score # placeholder.benefits.effectiveness_score
              /\ c.roi # placeholder.roi
              /\ c.recommendation # placeholder.recommendation

(***************************************************************************)
(* The claim about the script in one piece and the modular pipeline, under *)
(* SpecScript.                                                             *)
(***************************************************************************)
\* what the modular pipeline ends with for the same results: analyze,
\* update_cost_benefit_with_effectiveness, update_implementation_priorities
ModularAnalysis ==
    LET analysis == analyze(call.baseline_results, call.mitigation_results)
    IN  update_implementation_priorities(
            [analysis EXCEPT !.cost_benefit_analysis =
                 update_cost_benefit_with_effectiveness(analysis.cost_benefit_analysis,
                                                        analysis.mitigation_effectiveness)])

\* C26: after analyze_results and generate_report the script holds, for
\* every strategy, the total cost, benefit score, roi and recommendation that
\* the modular pipeline ends with for the same baseline and mitigation
\* results, and the same priority ranking.
C26_ScriptAgreesWithModules ==
    pc = "reported" =>
        /\ Len(result.cost_benefit_analysis) = Len(ModularAnalysis.cost_benefit_analysis)
        /\ \A i \in 1..Len(result.cost_benefit_analysis) :
              LET c == result.cost_benefit_analysis[i]
                  m == ModularAnalysis.cost_benefit_analysis[i]
              IN  /\ c.name = m.name
                  /\ c.costs.total = m.costs.total
                  /\ c.benefits.improvement_score = m.benefits.improvement_score
                  /\ c.roi = m.roi
                  /\ c.recommendation = m.recommendation
        /\ result.recommendations.implementation_priorities =
               ModularAnalysis.recommendations.implementation_priorities

(***************************************************************************)
(* The claims about the order of the trials and about a mean of 0, under   *)
(* Spec.                                                                   *)
(***************************************************************************)
\* the trials in the order given by the permutation p of their indices
Permuted(results, p) == [i \in 1..Len(results) |-> results[p[i]]]

\* C23: the statistics of a configuration or strategy are those of every
\* permutation of its trials: total_runs, valid_runs, avg_pass_rate,
\* std_pass_rate and, for the baseline, flakiness_index are the same in
\* whatever order the trials are aggregated.
C23_OrderIndependent ==
    /\ (pc = "baseline_done" /\ baseline_data # <<>>) =>
          \A p \in Permutations(1..Len(config_results)) :
              LET valid_results == ValidResults(Permuted(config_results, p))
                  record == baseline_data[1]
              IN  /\ record.total_runs = Len(Permuted(config_results, p))
                  /\ record.valid_runs = Len(valid_results)
                  /\ record.avg_pass_rate =
                         IF valid_results # <<>> THEN NpMean(RatesOf(valid_results))
                         ELSE FZero
                  /\ record.std_pass_rate =
                         IF valid_results # <<>> THEN NpStd(RatesOf(valid_results))
                         ELSE FZero
                  /\ record.flakiness_index = calculate_flakiness_index(valid_results)
    /\ (pc = "mitigation_done" /\ mitigation_data # <<>>) =>
          \A p \in Permutations(1..Len(strategy_results)) :
              LET valid_results == ValidResults(Permuted(strategy_results, p))
                  record == mitigation_data[1]
              IN  /\ record.total_runs = Len(Permuted(strategy_results, p))
                  /\ record.valid_runs = Len(valid_results)
                  /\ record.avg_pass_rate =
                         IF valid_results # <<>> THEN NpMean(RatesOf(valid_results))
                         ELSE FZero
                  /\ record.std_pass_rate =
                         IF valid_results # <<>> THEN NpStd(RatesOf(valid_results))
                         ELSE FZero

\* C29: for a collection whose defined pass rates are all in [0, 1], the
\* mean is 0 only if every pass rate is 0; the standard deviation is then 0
\* and so is the flakiness index: the case of a mean of 0 and a standard
\* deviation above 0, which gives 1.0, is never taken.
C29_NoVaryingMeanZeroInRange ==
    \A i \in 1..Len(baseline_data) :
        (DefinedRates # <<>> /\ RatesInRange) =>
            /\ ~(FIsZero(NpMean(DefinedRates)) /\ FLt(FZero, NpStd(DefinedRates)))
            /\ FIsZero(NpMean(DefinedRates)) =>
                  /\ \A j \in 1..Len(DefinedRates) : FIsZero(DefinedRates[j])
                  /\ FIsZero(baseline_data[i].std_pass_rate)
                  /\ baseline_data[i].flakiness_index = FZero

\* several trials in which no test passed: mean 0 and index 0
C29_Witness ==
    /\ baseline_data # <<>>
    /\ Len(DefinedRates) >= 2
    /\ RatesInRange
    /\ FIsZero(baseline_data[1].avg_pass_rate)
    /\ baseline_data[1].flakiness_index = FZero

====
